---- MODULE Spec2Model ----
(***************************************************************************)
(* A model of the rattler resolver bridge (crates/rattler/src/solver/     *)
(* resolver.rs), of the installer's Python-info rendezvous and package     *)
(* cache (crates/rattler/src/install/mod.rs), and of the linking of one    *)
(* entry with its prefix rewriting (crates/rattler/src/install/link.rs,    *)
(* python.rs), and of the Gate (crates/rattler/src/gate.rs).               *)
(*                                                                         *)
(* Conventions: Rust's Option::None is the string NoneV; variant indices   *)
(* are 1-based here (model index i is Rust index i-1); a BitVec is a       *)
(* sequence of BOOLEANs.                                                   *)
(***************************************************************************)
EXTENDS Integers, Sequences, FiniteSets, TLC

NoneV == "none"

(***************************************************************************)
(* Bounds of the model.                                                    *)
(***************************************************************************)
\* largest number of variants of one package in the version-set algebra runs
MaxVariants == 3
\* largest number of packages of one install transaction
MaxPackages == 3

VARIABLES
    mode,       \* which part of the program this behaviour exercises
    vset,       \* algebra: the PackageVariants under test
    x,          \* algebra: the subset produced by the last operation
    y,          \* algebra: a second subset kept for the binary operations
    lastOp,     \* algebra: the operation that produced x
    lastSpec,   \* algebra: the MatchSpec of the last subset_from_matchspec
    pkgs,       \* install: the packages handed to install_prefix
    has_python, \* install: PythonLinkStatus::has_python
    cell,       \* install: the value of the watch channel, <<>> for None
    pc,         \* install: where each install_package task is
    linked,     \* install: the path entries of each task whose link_file finished
    info,       \* install: the PythonInfo a task got from wait_for_info, <<>> if none
    err,        \* install: the error a task returned, NoneV if none
    install_result, \* install: what install_prefix returned, "none" before
    gate,       \* gate: the value in the watch channel of the Gate
    gversion,   \* gate: the version of the value in the channel
    glock,      \* gate: the task that holds the Mutex of the Gate, 0 if none
    gprog,      \* gate: the calls each task still has to make
    gpc,        \* gate: where each task is in its current call
    gseen,      \* gate: the version the Receiver of a waiting task has seen
    greturns,   \* gate: what the calls of each task returned, in order
    repo_datas, \* solver: Index::repo_datas, the (channel, repodata) sources
    cache,      \* solver: Index::package_variants_cache
    again,      \* solver: solve was called a second time on this index
    offers,     \* solver: the order in which the search offers each set of candidates
    ocall,      \* order: the last call on the index and what it returned
    cqueue,     \* compile: the requests sent to the host and not yet received
    chost,      \* compile: where the compiler host task is
    cmap,       \* compile: filename_to_request, the call recorded for a path
    cstdin,     \* compile: the lines written to the process and not yet answered
    cstdout,    \* compile: the lines the process has written and the host has not read
    cwrite,     \* compile: the line the host is writing to the process, if any
    cproc,      \* compile: the process: not spawned, running or exited
    ccalls,     \* compile: the source and the state of every compile call
    specs,      \* solver: the specs handed to solve
    sphase,     \* solver: where the use of the index is
    stack,      \* solver: the decisions of the partial solution, oldest first
    tried,      \* solver: per decision level, the variants ruled out there
    outcome,    \* solver: what solve returned, NoneV while it runs
    result,     \* solver: the (channel, record) pairs of an Ok result
    first,      \* solver: outcome and result of the solve before a re-solve
    destination, \* cache: what is on disk at the cache path of the archive stem
    ctask,      \* cache: where each task is in ensuring and using the archive
    cnext,      \* cache: the position in the archive of the file a task unpacks next
    cpart,      \* cache: the task has created that file and not yet written it
    clocal,     \* cache: what a task holds of the step it is in: the stat that returned, the files read, the entries linked
    clog,       \* cache: what each task did to the cache, in order
    archive,    \* cache: the files of the downloaded archive, in stream order
    path_entry, \* link: the PathEntry that link_file is called for
    windows,    \* link: the build is for Windows (cfg(windows))
    python_info, \* link: the PythonInfo of a noarch python package, or none
    destination_path, \* link: the path under the prefix that link_file writes
    target,     \* link: what is on disk at destination_path and at its parent
    lpc,        \* link: where link_file is
    attempts,   \* link: the file-system calls link_file made on the path
    lresult,    \* link: what link_file returned
    source,     \* rewrite: the bytes of the cached file
    prefix_placeholder, \* rewrite: the placeholder recorded for the file
    prefix,     \* rewrite: the bytes of the path of the installation prefix
    file_mode,  \* rewrite: the FileMode of the entry
    written     \* rewrite: the outcome and the bytes written to the destination

algVars == <<vset, x, y, lastOp, lastSpec>>
insVars == <<pkgs, has_python, cell, pc, linked, info, err, install_result>>
gateVars == <<gate, gversion, glock, gprog, gpc, gseen, greturns>>
solVars == <<repo_datas, cache, again, offers, specs, sphase, stack, tried, outcome, result,
            first>>
cacheVars == <<destination, ctask, cnext, cpart, clocal, clog, archive>>
linkVars == <<path_entry, windows, python_info, destination_path, target, lpc, attempts, lresult>>
rewVars == <<source, prefix_placeholder, prefix, file_mode, written>>
ordVars == <<ocall>>
compVars == <<cqueue, chost, cmap, cstdin, cstdout, cwrite, cproc, ccalls>>
vars == <<mode, algVars, insVars, solVars, cacheVars, linkVars, rewVars, gateVars,
          ordVars, compVars>>

\* The solver part at rest, for the behaviours that exercise another part.
SolIdle ==
    /\ repo_datas = <<>>
    /\ cache = <<>>
    /\ again = FALSE
    /\ offers = <<>>
    /\ specs = <<>>
    /\ sphase = "idle"
    /\ stack = <<>>
    /\ tried = <<>>
    /\ outcome = NoneV
    /\ result = {}
    /\ first = <<>>

\* The ordering calls at rest, for the behaviours that exercise another part.
OrdIdle ==
    ocall = [op |-> "none", args |-> <<>>, ret |-> <<>>]

\* The compiler host at rest, for the behaviours that exercise another part.
CompIdle ==
    /\ cqueue = <<>>
    /\ chost = "idle"
    /\ cmap = <<>>
    /\ cstdin = <<>>
    /\ cstdout = <<>>
    /\ cwrite = <<>>
    /\ cproc = "none"
    /\ ccalls = <<>>

\* The package cache at rest, for the behaviours that exercise another part.
CacheIdle ==
    /\ destination = <<>>
    /\ ctask = <<>>
    /\ cnext = <<>>
    /\ cpart = <<>>
    /\ clocal = <<>>
    /\ clog = <<>>
    /\ archive = <<>>

\* link_file at rest, for the behaviours that exercise another part.
LinkIdle ==
    /\ path_entry = <<>>
    /\ windows = FALSE
    /\ python_info = <<>>
    /\ destination_path = <<>>
    /\ target = <<>>
    /\ lpc = "idle"
    /\ attempts = <<>>
    /\ lresult = "none"

\* the prefix rewriting at rest, for the behaviours that exercise another part.
RewIdle ==
    /\ source = <<>>
    /\ prefix_placeholder = <<>>
    /\ prefix = <<>>
    /\ file_mode = "Text"
    /\ written = [status |-> "idle", bytes |-> <<>>]

\* the Gate at rest, for the behaviours that exercise another part.
GateIdle ==
    /\ gate = FALSE
    /\ gversion = 0
    /\ glock = 0
    /\ gprog = <<>>
    /\ gpc = <<>>
    /\ gseen = <<>>
    /\ greturns = <<>>

(***************************************************************************)
(* PackageRecord and MatchSpec values.                                     *)
(***************************************************************************)
MkRecord(name, version, build) ==
    [name |-> name, version |-> version, build |-> build, build_number |-> 0,
     track_features |-> FALSE, timestamp |-> 0,
     depends |-> <<>>, constrains |-> <<>>]

MkSpec(name, version, build) ==
    [name |-> name, version |-> version, build |-> build, build_number |-> <<>>]

\* a MatchSpec with build_number: Some(n); <<>> is None
WithBuildNumber(spec, n) == [spec EXCEPT !.build_number = <<n>>]

\* An absent version constraint (Option::None of MatchSpec::version).
NoVersion == [op |-> NoneV, v |-> 0]

\* VersionSpec::matches: the version lies in the range the spec denotes.
VersionSpecMatches(vs, v) ==
    CASE vs.op = "==" -> v = vs.v
      [] vs.op = ">=" -> v >= vs.v
      [] vs.op = "<"  -> v < vs.v
      [] OTHER        -> FALSE

\* glob::Pattern::matches for the two pattern shapes used here: "*" and a
\* literal build string.
GlobMatches(pattern, str) == pattern = "*" \/ pattern = str

\* MatchSpec::matches
matches(spec, record) ==
    /\ (spec.name # NoneV => spec.name = record.name)
    /\ (spec.version.op # NoneV => VersionSpecMatches(spec.version, record.version))
    /\ (spec.build # NoneV => GlobMatches(spec.build, record.build))

(***************************************************************************)
(* BitVec                                                                  *)
(***************************************************************************)
BitVecFromElem(n, b) == [i \in 1..n |-> b]
BitNone(bits) == \A i \in DOMAIN bits : ~bits[i]
BitAll(bits) == \A i \in DOMAIN bits : bits[i]
BitNegate(bits) == [i \in DOMAIN bits |-> ~bits[i]]
BitAnd(a, b) == [i \in DOMAIN a |-> a[i] /\ b[i]]
BitOr(a, b) == [i \in DOMAIN a |-> a[i] \/ b[i]]
BitCountOnes(bits) == Cardinality({i \in DOMAIN bits : bits[i]})

(***************************************************************************)
(* PackageVariantsSubset: Empty, Full or Discrete(bitset).                 *)
(***************************************************************************)
Empty == [tag |-> "Empty", included |-> <<>>]
Full == [tag |-> "Full", included |-> <<>>]
Discrete(bits) == [tag |-> "Discrete", included |-> bits]

\* #[derive(PartialEq)] on the enum, with PartialEq of PackageVariantBitset
SubsetEq(a, b) ==
    /\ a.tag = b.tag
    /\ (a.tag = "Discrete" => a.included = b.included)

(***************************************************************************)
(* PackageVariants: the name of a package and its variants, each a record  *)
(* with the index of its source (0 for the root and the virtual packages); *)
(* dependencies holds one cell per variant, filled (init) or not;          *)
(* solver_order is the cell of the order, <<>> while it is unset.          *)
(***************************************************************************)
Variant(src, rec) == [src |-> src, rec |-> rec]

UnsetCell == [init |-> FALSE, specs |-> <<>>]

PackageVariants(name, variants) ==
    [name |-> name, variants |-> variants, solver_order |-> <<>>,
     dependencies |-> [i \in 1..Len(variants) |-> UnsetCell]]

\* mutant of subset_from_matchspec: a partial match is reported as Full
SubsetFromMatchspecNoDiscrete(self, match_spec) ==
    LET included == [i \in 1..Len(self.variants) |->
                        matches(match_spec, self.variants[i].rec)]
    IN  IF BitNone(included) THEN Empty ELSE Full

\* PackageVariants::subset_from_matchspec
subset_from_matchspec(self, match_spec) ==
    LET included == [i \in 1..Len(self.variants) |->
                        matches(match_spec, self.variants[i].rec)]
    IN  IF BitNone(included) THEN Empty
        ELSE IF BitAll(included) THEN Full
        ELSE Discrete(included)

\* PackageVariants::subset_size
subset_size(self, range) ==
    CASE range.tag = "Empty" -> 0
      [] range.tag = "Full" -> Len(self.variants)
      [] OTHER -> BitCountOnes(range.included)

\* PackageVariantBitset::singleton wrapped by VersionSet::singleton
singleton(version_set, index) ==
    Discrete([i \in 1..Len(version_set.variants) |-> i = index])

\* mutant of complement: the bitset of a Discrete is cloned and not negated
ComplementNoNegate(s) ==
    CASE s.tag = "Empty" -> Full
      [] s.tag = "Full" -> Empty
      [] OTHER -> Discrete(s.included)

\* VersionSet::complement
complement(s) ==
    CASE s.tag = "Empty" -> Full
      [] s.tag = "Full" -> Empty
      [] OTHER -> Discrete(BitNegate(s.included))

\* mutant of intersection: the result of the bitwise AND is not canonicalised
IntersectionNoCanon(a, b) ==
    IF a.tag = "Empty" \/ b.tag = "Empty" THEN Empty
    ELSE IF a.tag = "Full" THEN b
    ELSE IF b.tag = "Full" THEN a
    ELSE Discrete(BitAnd(a.included, b.included))

\* VersionSet::intersection
intersection(a, b) ==
    IF a.tag = "Empty" \/ b.tag = "Empty" THEN Empty
    ELSE IF a.tag = "Full" THEN b
    ELSE IF b.tag = "Full" THEN a
    ELSE LET included == BitAnd(a.included, b.included)
         IN  IF BitNone(included) THEN Empty ELSE Discrete(included)

\* VersionSet::union
union(a, b) ==
    IF a.tag = "Empty" THEN b
    ELSE IF b.tag = "Empty" THEN a
    ELSE IF a.tag = "Full" \/ b.tag = "Full" THEN Full
    ELSE LET included == BitOr(a.included, b.included)
         IN  IF BitAll(included) THEN Full ELSE Discrete(included)

\* PackageVariantsSubset::contains_index and VersionSet::contains
contains_index(s, index) ==
    CASE s.tag = "Empty" -> FALSE
      [] s.tag = "Full" -> TRUE
      [] OTHER -> s.included[index]


(***************************************************************************)
(* Version-set algebra runs: a PackageVariants is fixed at the start and   *)
(* the VersionSet operations are applied to the subsets produced so far.   *)
(***************************************************************************)
AlgRecords ==
    {MkRecord("a", 1, "b0"), MkRecord("a", 2, "b0"), MkRecord("a", 2, "b1")}

AlgVersionSpecs == {NoVersion, [op |-> "==", v |-> 1], [op |-> ">=", v |-> 2]}

AlgSpecs ==
    {MkSpec(n, v, b) : n \in {NoneV, "a", "zz"}, v \in AlgVersionSpecs,
                       b \in {NoneV, "b1"}}
    \cup {WithBuildNumber(MkSpec(n, NoVersion, b), k) :
              n \in {NoneV, "a"}, b \in {NoneV, "b1"}, k \in {0, 1}}

AlgVariantSets ==
    {PackageVariants("a", [i \in 1..Len(rs) |-> Variant(1, rs[i])]) :
        rs \in UNION {[1..n -> AlgRecords] : n \in 0..MaxVariants}}

\* the variables of the other parts while the algebra runs
InsIdle ==
    /\ pkgs = <<>>
    /\ has_python = FALSE
    /\ cell = <<>>
    /\ pc = <<>>
    /\ linked = <<>>
    /\ info = <<>>
    /\ err = <<>>
    /\ install_result = "none"

AlgInit ==
    /\ mode = "algebra"
    /\ InsIdle
    /\ SolIdle
    /\ CacheIdle
    /\ LinkIdle
    /\ RewIdle
    /\ GateIdle
    /\ OrdIdle
    /\ CompIdle
    /\ vset \in AlgVariantSets
    /\ x = Empty
    /\ y = Empty
    /\ lastOp = "empty"
    /\ lastSpec = MkSpec(NoneV, NoVersion, NoneV)

AlgResult(op, value) ==
    /\ mode = "algebra"
    /\ x' = value
    /\ lastOp' = op
    /\ lastSpec' = MkSpec(NoneV, NoVersion, NoneV)
    /\ UNCHANGED <<mode, cacheVars, linkVars, rewVars, gateVars, ordVars, compVars, solVars, vset, y, insVars>>

AlgEmpty == AlgResult("empty", Empty)

AlgFull == AlgResult("full", Full)

AlgSingleton == \E i \in 1..Len(vset.variants) : AlgResult("singleton", singleton(vset, i))

AlgComplement == AlgResult("complement", complement(x))

AlgIntersection == AlgResult("intersection", intersection(x, y))

AlgUnion == AlgResult("union", union(x, y))

AlgFromMatchSpec ==
    /\ mode = "algebra"
    /\ \E p \in AlgSpecs :
        /\ x' = subset_from_matchspec(vset, p)
        /\ lastSpec' = p
    /\ lastOp' = "subset_from_matchspec"
    /\ UNCHANGED <<mode, cacheVars, linkVars, rewVars, gateVars, ordVars, compVars, solVars, vset, y, insVars>>

\* keep the last result as the second operand of later binary operations
AlgKeep ==
    /\ mode = "algebra"
    /\ y' = x
    /\ UNCHANGED <<mode, cacheVars, linkVars, rewVars, gateVars, ordVars, compVars, solVars, vset, x, lastOp, lastSpec, insVars>>

AlgNext ==
    \/ AlgEmpty
    \/ AlgFull
    \/ AlgSingleton
    \/ AlgComplement
    \/ AlgIntersection
    \/ AlgUnion
    \/ AlgFromMatchSpec
    \/ AlgKeep

SpecAlgebra == AlgInit /\ [][AlgNext]_vars

(***************************************************************************)
(* Claims about the version-set algebra (checked under SpecAlgebra).       *)
(***************************************************************************)
\* the variants of vset a subset selects
Selected(s) == {i \in 1..Len(vset.variants) : contains_index(s, i)}

Canonical(s) ==
    /\ (s.tag = "Empty" <=> Selected(s) = {})
    /\ (s.tag = "Full" <=> Selected(s) = 1..Len(vset.variants))
    /\ (s.tag = "Discrete" => ~BitNone(s.included) /\ ~BitAll(s.included))

\* C1: over every non-empty variant set, every subset the operations produce
\* is Empty iff it selects no variant, Full iff it selects every variant and
\* Discrete otherwise; a Discrete never holds an all-zero or all-ones bitset.
\* (Over a set without variants Empty and Full select the same variants, so
\* the statement is kept to the sets that have a variant.)
C1_Canonicalization ==
    (mode = "algebra" /\ Len(vset.variants) >= 1) => (Canonical(x) /\ Canonical(y))

\* C2: with the type's ==, intersection and union commute, complement is an
\* involution, X /\ ~X == Empty and X \/ ~X == Full, for all subsets X, Y the
\* operations produce over one variant set.
C2_AlgebraLaws ==
    mode = "algebra" =>
        /\ SubsetEq(intersection(x, y), intersection(y, x))
        /\ SubsetEq(union(x, y), union(y, x))
        /\ SubsetEq(complement(complement(x)), x)
        /\ SubsetEq(intersection(x, complement(x)), Empty)
        /\ SubsetEq(union(x, complement(x)), Full)

\* two different Discrete operands, the first one produced by complement
C2_Witness ==
    /\ mode = "algebra"
    /\ lastOp = "complement"
    /\ x.tag = "Discrete" /\ y.tag = "Discrete"
    /\ x.included # y.included

\* C3: subset_from_matchspec(S, p) contains the id of a variant r of S
\* exactly when p.matches(r).
C3_SubsetMatchesSpec ==
    (mode = "algebra" /\ lastOp = "subset_from_matchspec") =>
        \A i \in 1..Len(vset.variants) :
            contains_index(x, i) <=> matches(lastSpec, vset.variants[i].rec)

\* a spec that selects some but not all of three variants
C3_Witness ==
    /\ mode = "algebra"
    /\ lastOp = "subset_from_matchspec"
    /\ Len(vset.variants) = 3
    /\ x.tag = "Discrete"

\* every present field of the spec holds for the record
FieldsHold(spec, record) ==
    /\ spec.name # NoneV => spec.name = record.name
    /\ spec.version.op # NoneV => VersionSpecMatches(spec.version, record.version)
    /\ spec.build # NoneV => GlobMatches(spec.build, record.build)
    /\ spec.build_number # <<>> => spec.build_number[1] = record.build_number

\* C22: MatchSpec::matches(record) is true exactly when every present
\* field of the spec holds for the record: name equality, version in
\* range, build string matching the glob, build-number equality; absent
\* fields are wildcards.
C22_MatchesEveryField ==
    (mode = "algebra" /\ lastOp = "subset_from_matchspec") =>
        \A i \in 1..Len(vset.variants) :
            matches(lastSpec, vset.variants[i].rec) <=>
                FieldsHold(lastSpec, vset.variants[i].rec)

\* C26: for the subsets X, Y the operations produce over one variant set S
\* and every variant id of S: intersection(X, Y) contains id iff X and Y
\* both do, union(X, Y) contains id iff X or Y does, complement(X) contains
\* id iff X does not, singleton(v) contains id iff id = v, Empty contains no
\* id and Full contains every id.
C26_Membership ==
    mode = "algebra" =>
        \A id \in 1..Len(vset.variants) :
            /\ contains_index(intersection(x, y), id) <=>
                   (contains_index(x, id) /\ contains_index(y, id))
            /\ contains_index(union(x, y), id) <=>
                   (contains_index(x, id) \/ contains_index(y, id))
            /\ contains_index(complement(x), id) <=> ~contains_index(x, id)
            /\ \A v \in 1..Len(vset.variants) :
                   contains_index(singleton(vset, v), id) <=> (id = v)
            /\ ~contains_index(Empty, id)
            /\ contains_index(Full, id)

\* two different Discrete operands over three variants, the first one
\* produced by a union with the second
C26_Witness ==
    /\ mode = "algebra"
    /\ lastOp = "union"
    /\ Len(vset.variants) = 3
    /\ x.tag = "Discrete" /\ y.tag = "Discrete"
    /\ Selected(y) # {}
    /\ Selected(x) \ Selected(y) # {}

(***************************************************************************)
(* The installer: install_prefix spawns one install_package task per       *)
(* package; a no-arch-Python package waits on PythonLinkStatus for the     *)
(* PythonInfo that the task of the package named python publishes.         *)
(***************************************************************************)
\* What install_package learns about one package: the InstallSpec name, the
\* version (its numeric segments) and noarch marker of info/index.json.  The
\* marker is read whatever the name is, so a package named python may carry
\* it too.
InstallKinds ==
    << [name |-> "python",   version |-> <<3, 9, 1>>, noarch_python |-> FALSE],
       [name |-> "python",   version |-> <<3, 10>>,   noarch_python |-> FALSE],
       [name |-> "python",   version |-> <<3>>,       noarch_python |-> FALSE],
       [name |-> "python",   version |-> <<3, 11>>,   noarch_python |-> TRUE],
       [name |-> "requests", version |-> <<2, 28>>,   noarch_python |-> TRUE],
       [name |-> "zlib",     version |-> <<1, 2>>,    noarch_python |-> FALSE] >>

\* The install sets: up to MaxPackages packages. The tasks are spawned
\* together and run independently, so the sets are listed in one order only.
InstallSets ==
    {[i \in 1..Len(ks) |-> InstallKinds[ks[i]]] :
        ks \in {s \in UNION {[1..n -> 1..Len(InstallKinds)] : n \in 1..MaxPackages} :
                    \A i \in 1..(Len(s) - 1) : s[i] <= s[i + 1]}}

Tasks == 1..Len(pkgs)
\* the relative paths of the entries of info/paths.json of every package
Files == {"bin/tool", "site-packages/mod.py"}

\* mutant of HasPythonPackage: the rendezvous is always told python is there
HasPythonAlways(packages) == TRUE

\* install_prefix: has_python_package
HasPythonPackage(packages) == \E i \in 1..Len(packages) : packages[i].name = "python"

\* Version::as_major_minor
as_major_minor(version) ==
    IF Len(version) >= 2 THEN <<version[1], version[2]>> ELSE <<>>

\* PythonInfo::from_version: the (major, minor) pair that fixes the paths of
\* the PythonInfo, <<>> for Err(InvalidVersion)
from_version(version) == as_major_minor(version)

\* the loop that awaits link_tasks has seen every link task succeed
AllLinked(t) == linked[t] = Files

AlgIdle ==
    /\ vset = PackageVariants("a", <<>>)
    /\ x = Empty
    /\ y = Empty
    /\ lastOp = "empty"
    /\ lastSpec = MkSpec(NoneV, NoVersion, NoneV)

\* install_prefix is called: nothing is created or spawned yet
InsInit ==
    /\ mode = "install"
    /\ AlgIdle
    /\ SolIdle
    /\ CacheIdle
    /\ LinkIdle
    /\ RewIdle
    /\ GateIdle
    /\ OrdIdle
    /\ CompIdle
    /\ pkgs \in InstallSets
    /\ has_python = FALSE
    /\ cell = <<>>
    /\ pc = [t \in Tasks |-> "new"]
    /\ linked = [t \in Tasks |-> {}]
    /\ info = [t \in Tasks |-> <<>>]
    /\ err = [t \in Tasks |-> NoneV]
    /\ install_result = "none"

\* install_prefix: create_dir_all of the package cache path succeeds, the
\* PythonLinkStatus is made and one install_package task per package is
\* spawned
SpawnTasks ==
    /\ mode = "install"
    /\ install_result = "none"
    /\ \A t \in Tasks : pc[t] = "new"
    /\ has_python' = HasPythonPackage(pkgs)
    /\ pc' = [t \in Tasks |-> "fetch"]
    /\ UNCHANGED <<mode, cacheVars, linkVars, rewVars, gateVars, ordVars, compVars, solVars, algVars, install_result, pkgs, cell, linked, info, err>>

\* install_prefix: create_dir_all of the package cache path fails and `?`
\* returns the error before any task is spawned
CreateDirErr ==
    /\ mode = "install"
    /\ install_result = "none"
    /\ \A t \in Tasks : pc[t] = "new"
    /\ install_result' = "Err"
    /\ UNCHANGED <<mode, cacheVars, linkVars, rewVars, gateVars, ordVars, compVars, solVars, algVars, pkgs, has_python, cell, pc, linked, info, err>>

\* install_package: fetch_package_archive and the reads of info/index.json
\* and info/paths.json succeed
FetchOk(t) ==
    /\ mode = "install"
    /\ pc[t] = "fetch"
    /\ pc' = [pc EXCEPT ![t] = IF pkgs[t].noarch_python THEN "wait" ELSE "link"]
    /\ UNCHANGED <<mode, cacheVars, linkVars, rewVars, gateVars, ordVars, compVars, solVars, algVars, install_result, pkgs, has_python, cell, linked, info, err>>

\* install_package: one of them fails and the task returns the error
FetchFail(t) ==
    /\ mode = "install"
    /\ pc[t] = "fetch"
    /\ pc' = [pc EXCEPT ![t] = "failed"]
    /\ err' = [err EXCEPT ![t] = "fetch"]
    /\ UNCHANGED <<mode, cacheVars, linkVars, rewVars, gateVars, ordVars, compVars, solVars, algVars, install_result, pkgs, has_python, cell, linked, info>>

\* mutant of WaitForInfo: it returns whatever the channel holds, without
\* waiting for a value
WaitForInfoNoWait(t) ==
    /\ mode = "install"
    /\ pc[t] = "wait"
    /\ pc' = [pc EXCEPT ![t] = "link"]
    /\ info' = [info EXCEPT ![t] = cell]
    /\ UNCHANGED <<mode, cacheVars, linkVars, rewVars, gateVars, ordVars, compVars, solVars, algVars, install_result, pkgs, has_python, cell, linked, err>>

\* PythonLinkStatus::wait_for_info up to its first suspension point
WaitForInfo(t) ==
    /\ mode = "install"
    /\ pc[t] = "wait"
    /\ IF ~has_python
       THEN /\ pc' = [pc EXCEPT ![t] = "failed"]
            /\ err' = [err EXCEPT ![t] = "no package provides python"]
            /\ UNCHANGED info
       ELSE IF cell # <<>>
       THEN /\ pc' = [pc EXCEPT ![t] = "link"]
            /\ info' = [info EXCEPT ![t] = cell]
            /\ UNCHANGED err
       ELSE /\ pc' = [pc EXCEPT ![t] = "suspended"]
            /\ UNCHANGED <<info, err>>
    /\ UNCHANGED <<mode, cacheVars, linkVars, rewVars, gateVars, ordVars, compVars, solVars, algVars, install_result, pkgs, has_python, cell, linked>>

\* PythonLinkStatus::wait_for_info: changed() returns after a send and the
\* loop reads the value
Changed(t) ==
    /\ mode = "install"
    /\ pc[t] = "suspended"
    /\ cell # <<>>
    /\ pc' = [pc EXCEPT ![t] = "link"]
    /\ info' = [info EXCEPT ![t] = cell]
    /\ UNCHANGED <<mode, cacheVars, linkVars, rewVars, gateVars, ordVars, compVars, solVars, algVars, install_result, pkgs, has_python, cell, linked, err>>

\* one link task of install_package runs link_file and succeeds; the link
\* tasks run on the worker pool and keep running after the task has returned
\* the error of another link task
LinkOk(t, f) ==
    /\ mode = "install"
    /\ pc[t] = "link" \/ (pc[t] = "failed" /\ err[t] = "link")
    /\ f \notin linked[t]
    /\ linked' = [linked EXCEPT ![t] = @ \cup {f}]
    /\ UNCHANGED <<mode, cacheVars, linkVars, rewVars, gateVars, ordVars, compVars, solVars, algVars, install_result, pkgs, has_python, cell, pc, info, err>>

\* one link task fails: the loop over link_tasks returns its error
LinkFail(t, f) ==
    /\ mode = "install"
    /\ pc[t] = "link"
    /\ f \notin linked[t]
    /\ pc' = [pc EXCEPT ![t] = "failed"]
    /\ err' = [err EXCEPT ![t] = "link"]
    /\ UNCHANGED <<mode, cacheVars, linkVars, rewVars, gateVars, ordVars, compVars, solVars, algVars, install_result, pkgs, has_python, cell, linked, info>>

\* PythonLinkStatus::set: watch::Sender::send stores the value
set(value) == cell' = value

\* install_package after the last link task: the task of a package named
\* python publishes PythonInfo::from_version(index.version)
Finish(t) ==
    /\ mode = "install"
    /\ pc[t] = "link"
    /\ AllLinked(t)
    /\ IF pkgs[t].name = "python"
       THEN IF from_version(pkgs[t].version) = <<>>
            THEN /\ pc' = [pc EXCEPT ![t] = "failed"]
                 /\ err' = [err EXCEPT ![t] = "invalid python version"]
                 /\ UNCHANGED cell
            ELSE /\ set(from_version(pkgs[t].version))
                 /\ pc' = [pc EXCEPT ![t] = "done"]
                 /\ UNCHANGED err
       ELSE /\ pc' = [pc EXCEPT ![t] = "done"]
            /\ UNCHANGED <<cell, err>>
    /\ UNCHANGED <<mode, cacheVars, linkVars, rewVars, gateVars, ordVars, compVars, solVars, algVars, install_result, pkgs, has_python, linked, info>>

InsFrame ==
    UNCHANGED <<mode, cacheVars, linkVars, rewVars, gateVars, ordVars, compVars, solVars, algVars,
                pkgs, has_python, cell, pc, linked, info, err>>

\* install_prefix: the loop over download_tasks takes the result of a task
\* that failed and `?` returns it; the results of the tasks that succeeded
\* are taken and dropped, which changes nothing. The spawned tasks that are
\* still running keep running.
ReturnErr ==
    /\ mode = "install"
    /\ install_result = "none"
    /\ \E t \in Tasks : pc[t] = "failed"
    /\ install_result' = "Err"
    /\ InsFrame

\* ReturnOk that takes a failed task for a finished one
ReturnOkAnyEnd ==
    /\ mode = "install"
    /\ install_result = "none"
    /\ \A t \in Tasks : pc[t] \in {"done", "failed"}
    /\ install_result' = "Ok"
    /\ InsFrame

\* install_prefix: download_tasks is exhausted and every result was Ok
ReturnOk ==
    /\ mode = "install"
    /\ install_result = "none"
    /\ \A t \in Tasks : pc[t] = "done"
    /\ install_result' = "Ok"
    /\ InsFrame

InsNext ==
    \/ SpawnTasks
    \/ CreateDirErr
    \/ \E t \in Tasks : FetchOk(t)
    \/ \E t \in Tasks : FetchFail(t)
    \/ \E t \in Tasks : WaitForInfo(t)
    \/ \E t \in Tasks : Changed(t)
    \/ \E t \in Tasks, f \in Files : LinkOk(t, f)
    \/ \E t \in Tasks, f \in Files : LinkFail(t, f)
    \/ \E t \in Tasks : Finish(t)
    \/ ReturnErr
    \/ ReturnOk

SpecInstall == InsInit /\ [][InsNext]_vars

\* a step of the task of package t
TaskStep(t) ==
    \/ FetchOk(t)
    \/ FetchFail(t)
    \/ WaitForInfo(t)
    \/ Changed(t)
    \/ \E f \in Files : LinkOk(t, f)
    \/ \E f \in Files : LinkFail(t, f)
    \/ Finish(t)

\* The runtime polls every spawned task that can run, a fetch, an
\* extraction and a link step end, and install_prefix is polled when a task
\* it awaits has completed.
SpecInstallFair ==
    /\ SpecInstall
    /\ \A t \in 1..MaxPackages : WF_vars(\E u \in Tasks : u = t /\ TaskStep(u))
    /\ WF_vars(SpawnTasks \/ CreateDirErr)
    /\ WF_vars(ReturnErr)
    /\ WF_vars(ReturnOk)

(***************************************************************************)
(* Claims about the Python-info rendezvous (checked under SpecInstall).    *)
(***************************************************************************)
\* the task has spawned its link tasks
LinkingBegun(t) ==
    \/ pc[t] \in {"link", "done"}
    \/ (pc[t] = "failed" /\ err[t] = "link")
    \/ linked[t] # {}

\* C8: no link operation of a no-arch-Python package starts before
\* PythonInfo has been published; PythonInfo is published only after every
\* file of a package named python has finished linking; hence no file of a
\* no-arch-Python package is in the prefix before python has finished linking.
C8_NoArchLinksAfterPython ==
    mode = "install" =>
        /\ \A t \in Tasks :
              (pkgs[t].noarch_python /\ LinkingBegun(t)) =>
                  (cell # <<>> /\ info[t] # <<>>)
        /\ cell # <<>> =>
              \E p \in Tasks : /\ pkgs[p].name = "python"
                               /\ pc[p] = "done"
                               /\ linked[p] = Files
        /\ \A t \in Tasks :
              (pkgs[t].noarch_python /\ linked[t] # {}) =>
                  \E p \in Tasks : pkgs[p].name = "python" /\ linked[p] = Files

\* a no-arch-Python package that was suspended has linked all its files
C8_Witness ==
    /\ mode = "install"
    /\ \E t \in Tasks : /\ pkgs[t].noarch_python
                        /\ pc[t] = "done"
                        /\ linked[t] = Files

\* the install set holds a package named python
SetHasPython == \E t \in Tasks : pkgs[t].name = "python"

\* C9: without a package named python in the install set a consumer of the
\* rendezvous fails with "no package provides python" and never suspends;
\* with one it never returns that error.
C9_NoPythonFailsAtOnce ==
    mode = "install" =>
        \A t \in Tasks :
            /\ (~SetHasPython => pc[t] # "suspended")
            /\ (~SetHasPython /\ pkgs[t].noarch_python
                    /\ pc[t] \notin {"new", "fetch", "wait"} /\ err[t] # "fetch")
                  => (pc[t] = "failed" /\ err[t] = "no package provides python")
            /\ (SetHasPython => err[t] # "no package provides python")

\* a consumer has failed with the error
C9_Witness ==
    /\ mode = "install"
    /\ \E t \in Tasks : /\ pkgs[t].noarch_python
                        /\ pc[t] = "failed"
                        /\ err[t] = "no package provides python"

\* C10: the rendezvous cell is write-once: the PythonInfo a consumer has
\* observed stays the value of the cell for the rest of the transaction, so
\* all no-arch-Python packages link against the same PythonInfo.
C10_WriteOnce ==
    mode = "install" =>
        \A t \in Tasks : info[t] # <<>> => cell = info[t]

(***************************************************************************)
(* The index: package_variants, dependencies, the ordering of variants.    *)
(* Variant indices count from 1 here and from 0 in the source.             *)
(***************************************************************************)
ROOT_NAME == "__ROOT__"

\* A depends or constrains string for which MatchSpec::from_str returns Err.
Unparsable == MkSpec(NoneV, [op |-> "invalid", v |-> 0], NoneV)

\* A record with the depends and constrains of its repodata entry: a string
\* is held as the match spec that MatchSpec::from_str yields for it, or as
\* Unparsable.
WithDeps(rec, depends, constrains) ==
    [rec EXCEPT !.depends = depends, !.constrains = constrains]

\* A raw entry of a lazy source for which LazyPackageRecord::parse returns
\* Err.
Corrupt == MkRecord(NoneV, 0, NoneV)

\* Result<Vec<PackageRecord>, Box<dyn Error>>
RecordsErr == [ok |-> FALSE, records |-> <<>>]

RecordsOk(parsed) == [ok |-> TRUE, records |-> parsed]

\* PackageRecordProvider::records: the entries of one source under a name,
\* each of them parsed and the results collected: an entry that does not
\* parse makes the call return Err, a name the source does not have gives
\* the empty list
records(repodata, package) ==
    IF package \notin DOMAIN repodata THEN RecordsOk(<<>>)
    ELSE IF \E i \in 1..Len(repodata[package]) : repodata[package][i] = Corrupt
    THEN RecordsErr
    ELSE RecordsOk(repodata[package])

RECURSIVE RepoVariants(_, _)
\* the flattened (index + 1, record) pairs of the sources from index k on
RepoVariants(package, k) ==
    IF k > Len(repo_datas) THEN <<>>
    ELSE LET recs == records(repo_datas[k].repodata, package).records
         IN  [i \in 1..Len(recs) |-> Variant(k, recs[i])]
                 \o RepoVariants(package, k + 1)

\* Index::package_variants returns Err: the cache has no entry for the name
\* and records returns Err for one of the sources (collect::<Result<..>>()?);
\* nothing is inserted into the cache then
PackageVariantsErr(package) ==
    /\ package \notin DOMAIN cache
    /\ \E k \in 1..Len(repo_datas) :
           ~records(repo_datas[k].repodata, package).ok

\* mutant of package_variants: the set is built from the sources every time
PackageVariantsNoCache(package) ==
    PackageVariants(package, RepoVariants(package, 1))

\* Index::package_variants where it returns Ok (PackageVariantsErr tells
\* where it does not): the cached set, or the set built from the sources
package_variants(package) ==
    IF package \in DOMAIN cache THEN cache[package]
    ELSE PackageVariants(package, RepoVariants(package, 1))

\* package_variants_cache after package_variants ran for each of the names:
\* a call that returned Err has inserted nothing
CacheAfter(names) ==
    [n \in DOMAIN cache \cup {m \in names : ~PackageVariantsErr(m)} |->
        package_variants(n)]

\* Result<Vec<MatchSpec>, ParseMatchSpecError>
ParseError == [ok |-> FALSE, specs |-> <<>>]

Parsed(match_specs) == [ok |-> TRUE, specs |-> match_specs]

\* the strings parsed one after the other and collected into a Result
ParseAll(strs) ==
    IF \E i \in 1..Len(strs) : strs[i] = Unparsable THEN ParseError
    ELSE Parsed(strs)

\* Index::dependencies: the value of the cell, or the parsed depends of the
\* record
dependencies(variants, variant_idx) ==
    IF variants.dependencies[variant_idx].init
    THEN Parsed(variants.dependencies[variant_idx].specs)
    ELSE ParseAll(variants.variants[variant_idx].rec.depends)

\* the set after Index::dependencies ran for the indices: get_or_try_init
\* fills a cell that is unset when the depends of its record parse
FillCells(variants, indices) ==
    [variants EXCEPT !.dependencies =
        [i \in 1..Len(variants.variants) |->
            IF i \in indices /\ dependencies(variants, i).ok
            THEN [init |-> TRUE, specs |-> dependencies(variants, i).specs]
            ELSE variants.dependencies[i]]]

\* Result::unwrap_or(&empty_vec)
UnwrapOrEmpty(parsed) == IF parsed.ok THEN parsed.specs ELSE <<>>

\* Ord::cmp on integers and on booleans (false < true)
Cmp(a, b) == IF a < b THEN "Less" ELSE IF a > b THEN "Greater" ELSE "Equal"

BoolCmp(a, b) == Cmp(IF a THEN 1 ELSE 0, IF b THEN 1 ELSE 0)

NoHighest == [some |-> FALSE, version |-> 0, tracked |-> FALSE]

RECURSIVE HighestFold(_, _, _, _)
\* the fold of find_highest_version over the matching records
HighestFold(variants, match_spec, i, init) ==
    IF i > Len(variants) THEN init
    ELSE LET record == variants[i].rec
             next == IF ~matches(match_spec, record) THEN init
                     ELSE IF ~init.some
                     THEN [some |-> TRUE, version |-> record.version,
                           tracked |-> record.track_features]
                     ELSE [some |-> TRUE,
                           version |-> IF record.version > init.version
                                       THEN record.version ELSE init.version,
                           tracked |-> init.tracked /\ ~record.track_features]
         IN  HighestFold(variants, match_spec, i + 1, next)

\* Index::find_highest_version (track_features is TRUE when the list is not
\* empty); the match_spec_cache returns what this computes.  A spec without
\* a name and a failed lookup (package_variants(name).ok()?) give None.
find_highest_version(match_spec) ==
    IF match_spec.name = NoneV THEN NoHighest
    ELSE IF PackageVariantsErr(match_spec.name) THEN NoHighest
    ELSE HighestFold(package_variants(match_spec.name).variants, match_spec,
                     1, NoHighest)

\* b_specs_by_name.get(name): the last spec of that name, collected in order
SpecByName(match_specs, name) ==
    LET idx == {i \in 1..Len(match_specs) : match_specs[i].name = name}
    IN  IF idx = {} THEN <<>>
        ELSE <<match_specs[CHOOSE i \in idx : \A j \in idx : j <= i]>>

\* the score compare_variants adds for the highest versions two specs select
HighestScore(highest_a, highest_b) ==
    IF ~(highest_a.some /\ highest_b.some) THEN 0
    ELSE IF highest_a.tracked # highest_b.tracked
    THEN (IF highest_b.tracked THEN 0 - 100 ELSE 100)
    ELSE IF highest_a.version < highest_b.version THEN 1
    ELSE IF highest_a.version > highest_b.version THEN 0 - 1
    ELSE 0

\* the score for a spec of a and the spec of b with the same name, if any
SpecScore(a_spec, found) ==
    IF a_spec.name = NoneV \/ found = <<>> THEN 0
    ELSE IF a_spec = found[1] THEN 0
    ELSE HighestScore(find_highest_version(a_spec),
                      find_highest_version(found[1]))

\* the contribution of one spec of a to total_score in compare_variants
DependencyScore(a_spec, b_match_specs) ==
    SpecScore(a_spec, SpecByName(b_match_specs, a_spec.name))

RECURSIVE TotalScore(_, _, _)
TotalScore(a_match_specs, b_match_specs, i) ==
    IF i > Len(a_match_specs) THEN 0
    ELSE DependencyScore(a_match_specs[i], b_match_specs)
             + TotalScore(a_match_specs, b_match_specs, i + 1)

\* mutant of ScoreThenTimestamp: the timestamps are compared the other way
ScoreThenOlderFirst(a, b, total_score) ==
    IF total_score # 0 THEN Cmp(total_score, 0)
    ELSE Cmp(a.timestamp, b.timestamp)

\* the end of compare_variants: the score if it is not 0, else the timestamp
ScoreThenTimestamp(a, b, total_score) ==
    IF total_score # 0 THEN Cmp(total_score, 0)
    ELSE Cmp(b.timestamp, a.timestamp)

\* Index::compare_variants
compare_variants(variants, a_idx, b_idx) ==
    LET a == variants.variants[a_idx].rec
        b == variants.variants[b_idx].rec
        a_has_tracked_features == ~a.track_features
        b_has_tracked_features == ~b.track_features
    IN  IF BoolCmp(b_has_tracked_features, a_has_tracked_features) # "Equal"
        THEN BoolCmp(b_has_tracked_features, a_has_tracked_features)
        ELSE IF a.version # b.version THEN Cmp(b.version, a.version)
        ELSE IF a.build_number # b.build_number
        THEN Cmp(b.build_number, a.build_number)
        ELSE ScoreThenTimestamp(a, b,
                 TotalScore(UnwrapOrEmpty(dependencies(variants, a_idx)),
                            UnwrapOrEmpty(dependencies(variants, b_idx)), 1))

\* compare_variants gets as far as the dependencies of the two variants
ComparesDependencies(variants, a_idx, b_idx) ==
    LET a == variants.variants[a_idx].rec
        b == variants.variants[b_idx].rec
    IN  /\ a.track_features = b.track_features
        /\ a.version = b.version
        /\ a.build_number = b.build_number

\* the names compare_variants passes on to find_highest_version, which
\* looks their sets up unless it has the answer for the spec already (and
\* then it looked the set up before)
CompareLookups(variants, a_idx, b_idx) ==
    IF ~ComparesDependencies(variants, a_idx, b_idx) THEN {}
    ELSE LET a_match_specs == UnwrapOrEmpty(dependencies(variants, a_idx))
             b_match_specs == UnwrapOrEmpty(dependencies(variants, b_idx))
         IN  {a_match_specs[i].name :
                 i \in {k \in 1..Len(a_match_specs) :
                     /\ a_match_specs[k].name # NoneV
                     /\ SpecByName(b_match_specs, a_match_specs[k].name) # <<>>
                     /\ a_match_specs[k] #
                            SpecByName(b_match_specs, a_match_specs[k].name)[1]}}

\* the set of the variants after compare_variants: the cells of the two
\* variants are filled when their dependencies were asked for
AfterCompare(variants, a_idx, b_idx) ==
    FillCells(variants,
              IF ComparesDependencies(variants, a_idx, b_idx)
              THEN {a_idx, b_idx} ELSE {})

RECURSIVE InsertTailDedup(_, _, _)
\* mutant of InsertTail: an element equal to the one before it is dropped
InsertTailDedup(variants, sorted, tmp) ==
    IF sorted = <<>> THEN <<tmp>>
    ELSE IF compare_variants(variants, tmp, sorted[Len(sorted)]) = "Equal"
    THEN sorted
    ELSE IF compare_variants(variants, tmp, sorted[Len(sorted)]) # "Less"
    THEN Append(sorted, tmp)
    ELSE Append(InsertTailDedup(variants, SubSeq(sorted, 1, Len(sorted) - 1), tmp),
                sorted[Len(sorted)])

RECURSIVE InsertTail(_, _, _)
\* insert_tail of the slice sort: tmp, the element behind the sorted part,
\* moves left past the elements it is less than; is_less(tmp, x) is
\* compare_variants(tmp, x) = Less
InsertTail(variants, sorted, tmp) ==
    IF sorted = <<>>
          \/ compare_variants(variants, tmp, sorted[Len(sorted)]) # "Less"
    THEN Append(sorted, tmp)
    ELSE Append(InsertTail(variants, SubSeq(sorted, 1, Len(sorted) - 1), tmp),
                sorted[Len(sorted)])

RECURSIVE InsertTailCompared(_, _, _)
\* the pairs <<a, b>> insert_tail hands to compare_variants: tmp with the
\* element before it, and on Less with the next one to the left
InsertTailCompared(variants, sorted, tmp) ==
    IF sorted = <<>> THEN {}
    ELSE {<<tmp, sorted[Len(sorted)]>>} \cup
         (IF compare_variants(variants, tmp, sorted[Len(sorted)]) # "Less"
          THEN {}
          ELSE InsertTailCompared(variants,
                                  SubSeq(sorted, 1, Len(sorted) - 1), tmp))

RECURSIVE insertion_sort_shift_left(_, _)
\* the stable sort of a slice of at most 20 elements in the standard
\* library: insert_tail for every position from the second on
insertion_sort_shift_left(variants, indices) ==
    IF indices = <<>> THEN <<>>
    ELSE InsertTail(variants,
                    insertion_sort_shift_left(
                        variants, SubSeq(indices, 1, Len(indices) - 1)),
                    indices[Len(indices)])

RECURSIVE SortCompared(_, _)
\* the pairs the sort hands to compare_variants
SortCompared(variants, indices) ==
    IF indices = <<>> THEN {}
    ELSE SortCompared(variants, SubSeq(indices, 1, Len(indices) - 1)) \cup
         InsertTailCompared(variants,
                            insertion_sort_shift_left(
                                variants, SubSeq(indices, 1, Len(indices) - 1)),
                            indices[Len(indices)])

\* what result.sort_by(compare_variants) leaves in result = 0..len
sort_by(variants) ==
    insertion_sort_shift_left(variants, [i \in 1..Len(variants.variants) |-> i])

\* the comparisons of that sort
Comparisons(variants) ==
    SortCompared(variants, [i \in 1..Len(variants.variants) |-> i])

\* the variants whose dependencies the sort asks for: those of a comparison
\* that gets as far as the dependencies
SortCells(variants) ==
    {i \in 1..Len(variants.variants) :
        \E pair \in Comparisons(variants) :
            /\ i \in {pair[1], pair[2]}
            /\ ComparesDependencies(variants, pair[1], pair[2])}

\* the names the comparisons of the sort pass on to find_highest_version
SortLookups(variants) ==
    UNION {CompareLookups(variants, pair[1], pair[2]) :
              pair \in Comparisons(variants)}

\* what the closure of solver_order.get_or_init may yield; it does not run
\* when the cell is set
OrderOutcomes(variants) ==
    IF variants.solver_order # <<>> THEN {variants.solver_order[1]}
    ELSE {sort_by(variants)}

\* Index::variants_order: solver_order.get_or_init, sorted being what
\* sort_by leaves
variants_order(variants, sorted) ==
    IF variants.solver_order # <<>> THEN variants.solver_order[1] ELSE sorted

\* the set after variants_order: the order is kept in the cell, and the
\* sort has filled dependency cells
AfterVariantsOrder(variants, sorted) ==
    IF variants.solver_order # <<>> THEN variants
    ELSE [FillCells(variants, SortCells(variants)) EXCEPT
             !.solver_order = <<sorted>>]

\* the names variants_order passes on to find_highest_version
VariantsOrderLookups(variants) ==
    IF variants.solver_order # <<>> THEN {} ELSE SortLookups(variants)

(***************************************************************************)
(* The DependencyProvider callbacks of the index.                          *)
(***************************************************************************)
\* mutant of MinStep: a count of zero is not set aside
MinStepAnyCount(i, count, min_package, min_dependency_count) ==
    IF min_package = 0 \/ count < min_dependency_count
    THEN <<i, count>>
    ELSE <<min_package, min_dependency_count>>

\* one round of the first loop of choose_package_version
MinStep(i, count, min_package, min_dependency_count) ==
    IF (min_package = 0 \/ count < min_dependency_count) /\ count > 0
    THEN <<i, count>>
    ELSE <<min_package, min_dependency_count>>

RECURSIVE MinLoop(_, _, _)
MinLoop(potential_packages, i, min) ==
    IF i > Len(potential_packages) THEN min[1]
    ELSE MinLoop(potential_packages, i + 1,
             MinStep(i,
                 subset_size(package_variants(potential_packages[i].package),
                             potential_packages[i].range),
                 min[1], min[2]))

\* the first loop of choose_package_version: the position of the first
\* offered package with the least positive subset_size, 0 if there is none
\* (min_package = None; min_dependency_count starts above every count)
MinPackage(potential_packages) == MinLoop(potential_packages, 1, <<0, 0>>)

\* the position of the first offered package for which package_variants
\* returns Err (returned by `?` from the first loop), 0 if there is none
FirstLookupErr(potential_packages) ==
    IF \A k \in 1..Len(potential_packages) :
           ~PackageVariantsErr(potential_packages[k].package)
    THEN 0
    ELSE CHOOSE k \in 1..Len(potential_packages) :
             /\ PackageVariantsErr(potential_packages[k].package)
             /\ \A j \in 1..(k - 1) :
                    ~PackageVariantsErr(potential_packages[j].package)

\* the names the first loop passes to package_variants
OfferedLookups(potential_packages) ==
    {potential_packages[k].package :
        k \in {j \in 1..Len(potential_packages) :
                  FirstLookupErr(potential_packages) = 0
                      \/ j < FirstLookupErr(potential_packages)}}

\* Err of choose_package_version
NotChosen == [ok |-> FALSE, package |-> NoneV, index |-> 0]

\* the first index of the order that the range contains
FirstContained(package, range, order) ==
    IF \A k \in 1..Len(order) : ~contains_index(range, order[k])
    THEN NotChosen
    ELSE [ok |-> TRUE, package |-> package,
          index |-> order[CHOOSE k \in 1..Len(order) :
                        /\ contains_index(range, order[k])
                        /\ \A j \in 1..(k - 1) : ~contains_index(range, order[j])]]

\* choose_package_version after the first loop picked the offered entry min
ChooseVariant(min, sorted) ==
    FirstContained(min.package, min.range,
                   variants_order(package_variants(min.package), sorted))

\* choose_package_version with the position the first loop found, if it
\* ran to its end
ChooseAt(potential_packages, best, sorted) ==
    IF FirstLookupErr(potential_packages) # 0 THEN NotChosen
    ELSE IF best = 0 THEN NotChosen
    ELSE ChooseVariant(potential_packages[best], sorted)

\* Index::choose_package_version, sorted being what sort_by leaves if
\* variants_order has to sort; ok is FALSE for the Err of a lookup and for
\* the "no packages found that can be chosen" error
choose_package_version(potential_packages, sorted) ==
    ChooseAt(potential_packages, MinPackage(potential_packages), sorted)

\* what sort_by leaves for the set choose_package_version asks the order of
ChoiceOrders(potential_packages) ==
    LET best == MinPackage(potential_packages)
    IN  IF FirstLookupErr(potential_packages) # 0 \/ best = 0 THEN {<<>>}
        ELSE OrderOutcomes(package_variants(potential_packages[best].package))

\* Requirement::Required and Requirement::Constrained
Required(range) == [req |-> "Required", range |-> range]

Constrained(range) == [req |-> "Constrained", range |-> range]

\* Dependencies::Unknown and Dependencies::Known
Unknown == [kind |-> "Unknown", deps |-> <<>>]

Known(deps) == [kind |-> "Known", deps |-> deps]

\* Err of get_dependencies
DependenciesErr == [kind |-> "Err", deps |-> <<>>]

\* the panic of expect("matchspec without package name")
DependenciesPanic == [kind |-> "Panic", deps |-> <<>>]

\* result.entry(name) set to value, the other entries kept
Insert(map, name, value) ==
    [n \in DOMAIN map \cup {name} |-> IF n = name THEN value ELSE map[n]]

RECURSIVE ConstrainsLoop(_, _, _)
\* the loop of get_dependencies over record.constrains: every string is
\* parsed as the loop comes to it, and the loop is left by `?` when the
\* string does not parse or the lookup of its package fails, and by the
\* panic of expect when the spec has no name
ConstrainsLoop(constrains, i, res) ==
    IF i > Len(constrains) THEN Known(res)
    ELSE LET match_spec == constrains[i]
             name == match_spec.name
             version_set == package_variants(name)
             range == subset_from_matchspec(version_set, match_spec)
             entry == IF name \in DOMAIN res
                      THEN [res[name] EXCEPT
                               !.range = intersection(res[name].range, range)]
                      ELSE Constrained(range)
         IN  IF match_spec = Unparsable THEN DependenciesErr
             ELSE IF name = NoneV THEN DependenciesPanic
             ELSE IF PackageVariantsErr(name) THEN DependenciesErr
             ELSE ConstrainsLoop(constrains, i + 1, Insert(res, name, entry))

RECURSIVE DependsLoopSkipMissing(_, _, _)
\* mutant of DependsLoop: a dependency that no variant satisfies is skipped
DependsLoopSkipMissing(deps, i, res) ==
    IF i > Len(deps) THEN Known(res)
    ELSE LET match_spec == deps[i]
             name == match_spec.name
             version_set == package_variants(name)
             range == subset_from_matchspec(version_set, match_spec)
             new == IF name \in DOMAIN res
                    THEN intersection(res[name].range, range)
                    ELSE range
         IN  IF name = NoneV THEN DependenciesPanic
             ELSE IF PackageVariantsErr(name) THEN DependenciesErr
             ELSE IF version_set.variants = <<>> \/ SubsetEq(new, Empty)
             THEN DependsLoopSkipMissing(deps, i + 1, res)
             ELSE DependsLoopSkipMissing(deps, i + 1,
                                         Insert(res, name, Required(new)))

RECURSIVE DependsLoopKeepKind(_, _, _)
\* mutant of DependsLoop: an entry the constrains loop made stays Constrained
DependsLoopKeepKind(deps, i, res) ==
    IF i > Len(deps) THEN Known(res)
    ELSE LET match_spec == deps[i]
             name == match_spec.name
             version_set == package_variants(name)
             range == subset_from_matchspec(version_set, match_spec)
             new == IF name \in DOMAIN res
                    THEN intersection(res[name].range, range)
                    ELSE range
             entry == IF name \in DOMAIN res
                      THEN [res[name] EXCEPT !.range = new]
                      ELSE Required(new)
         IN  IF name = NoneV THEN DependenciesPanic
             ELSE IF PackageVariantsErr(name) THEN DependenciesErr
             ELSE IF version_set.variants = <<>> THEN Unknown
             ELSE IF SubsetEq(new, Empty) THEN Unknown
             ELSE DependsLoopKeepKind(deps, i + 1, Insert(res, name, entry))

\* the names for which name.starts_with("__") holds
VirtualNames == {"__v", ROOT_NAME}

RECURSIVE DependsLoopErr(_, _, _)
\* mutant of DependsLoop: a missing package that is not virtual is the error
\* "no entries found for package"
DependsLoopErr(deps, i, res) ==
    IF i > Len(deps) THEN Known(res)
    ELSE LET match_spec == deps[i]
             name == match_spec.name
             version_set == package_variants(name)
             range == subset_from_matchspec(version_set, match_spec)
             new == IF name \in DOMAIN res
                    THEN intersection(res[name].range, range)
                    ELSE range
         IN  IF name = NoneV THEN DependenciesPanic
             ELSE IF PackageVariantsErr(name) THEN DependenciesErr
             ELSE IF version_set.variants = <<>>
             THEN (IF name \in VirtualNames THEN Unknown
                   ELSE DependenciesErr)
             ELSE IF SubsetEq(new, Empty) THEN Unknown
             ELSE DependsLoopErr(deps, i + 1, Insert(res, name, Required(new)))

RECURSIVE DependsLoop(_, _, _)
\* the loop of get_dependencies over the dependencies of the variant: it is
\* left by the panic of expect at a spec without a name, by `?` when the
\* lookup of the package fails, and with Unknown at a package without
\* variants or an intersection that is empty
DependsLoop(deps, i, res) ==
    IF i > Len(deps) THEN Known(res)
    ELSE LET match_spec == deps[i]
             name == match_spec.name
             version_set == package_variants(name)
             range == subset_from_matchspec(version_set, match_spec)
             new == IF name \in DOMAIN res
                    THEN intersection(res[name].range, range)
                    ELSE range
         IN  IF name = NoneV THEN DependenciesPanic
             ELSE IF PackageVariantsErr(name) THEN DependenciesErr
             ELSE IF version_set.variants = <<>> THEN Unknown
             ELSE IF SubsetEq(new, Empty) THEN Unknown
             ELSE DependsLoop(deps, i + 1, Insert(res, name, Required(new)))

\* get_dependencies after the loop over the constrains, which ended with
\* constrained
AfterConstrains(deps, constrained) ==
    IF constrained.kind # "Known" THEN constrained
    ELSE DependsLoop(deps, 1, constrained.deps)

\* Index::get_dependencies for the variant index of version_set: the
\* dependencies of the variant are parsed first (self.dependencies(..)?)
get_dependencies(version_set, index) ==
    IF ~dependencies(version_set, index).ok THEN DependenciesErr
    ELSE AfterConstrains(dependencies(version_set, index).specs,
             ConstrainsLoop(version_set.variants[index].rec.constrains, 1, <<>>))

RECURSIVE ConstrainsLookups(_, _)
\* the names the constrains loop passes to package_variants before it ends
ConstrainsLookups(constrains, i) ==
    IF i > Len(constrains) THEN {}
    ELSE IF constrains[i] = Unparsable \/ constrains[i].name = NoneV THEN {}
    ELSE IF PackageVariantsErr(constrains[i].name) THEN {constrains[i].name}
    ELSE {constrains[i].name} \cup ConstrainsLookups(constrains, i + 1)

RECURSIVE DependsLookups(_, _, _)
\* the names the depends loop passes to package_variants before it returns
DependsLookups(deps, i, res) ==
    IF i > Len(deps) THEN {}
    ELSE LET match_spec == deps[i]
             name == match_spec.name
             version_set == package_variants(name)
             range == subset_from_matchspec(version_set, match_spec)
             new == IF name \in DOMAIN res
                    THEN intersection(res[name].range, range)
                    ELSE range
         IN  IF name = NoneV THEN {}
             ELSE IF PackageVariantsErr(name) THEN {name}
             ELSE IF version_set.variants = <<>> \/ SubsetEq(new, Empty)
             THEN {name}
             ELSE {name} \cup DependsLookups(deps, i + 1,
                                             Insert(res, name, Required(new)))

\* the names get_dependencies passes to package_variants
GetDependenciesLookups(version_set, index) ==
    LET constrains == version_set.variants[index].rec.constrains
    IN  IF ~dependencies(version_set, index).ok THEN {}
        ELSE ConstrainsLookups(constrains, 1)
               \cup (IF ConstrainsLoop(constrains, 1, <<>>).kind # "Known" THEN {}
                     ELSE DependsLookups(
                              dependencies(version_set, index).specs, 1,
                              ConstrainsLoop(constrains, 1, <<>>).deps))

(***************************************************************************)
(* solve: the root package, the search of pubgrub::solver::resolve seen    *)
(* through the callbacks it makes, and the mapping of its answer.          *)
(* The search keeps decisions (stack) and, per decision level, the         *)
(* variants it learnt to be impossible under the decisions before that     *)
(* level (tried).  The term it holds for a package is the intersection of  *)
(* the ranges that the decisions and the exclusions put on it.             *)
(***************************************************************************)
\* the PackageVariants solve creates for the root: one variant of source 0
\* whose dependencies cell holds the requested specs
RootVariants(requested) ==
    [name |-> ROOT_NAME,
     variants |-> <<Variant(0, MkRecord(ROOT_NAME, 0, "0"))>>,
     solver_order |-> <<>>,
     dependencies |-> <<[init |-> TRUE, specs |-> requested]>>]

\* the set add_virtual_package inserts
VirtualVariants(package) == PackageVariants(package.name, <<Variant(0, package)>>)

Decided == {stack[k].package : k \in 1..Len(stack)}

\* the dependencies get_dependencies returned for the k-th decision
DecisionDeps(k) == stack[k].deps

RECURSIVE DepTerms(_, _, _)
\* range intersected with what the decisions from k on require of package
DepTerms(package, k, range) ==
    IF k > Len(stack) THEN range
    ELSE IF package \in DOMAIN DecisionDeps(k)
    THEN DepTerms(package, k + 1,
                  intersection(range, DecisionDeps(k)[package].range))
    ELSE DepTerms(package, k + 1, range)

RECURSIVE Excluded(_, _, _)
\* range without the variants in the set excl, one complement at a time
Excluded(package, excl, range) ==
    IF excl = {} THEN range
    ELSE LET e == CHOOSE e \in excl : TRUE
         IN  Excluded(package, excl \ {e},
                 IF e[1] = package
                 THEN intersection(range,
                          complement(singleton(package_variants(package), e[2])))
                 ELSE range)

\* the term of the partial solution for package
RangeOf(package) ==
    Excluded(package, UNION {tried[k] : k \in 1..Len(tried)},
        DepTerms(package, 1,
            IF package = ROOT_NAME
            THEN singleton(package_variants(ROOT_NAME), 1)
            ELSE Full))

\* the packages some decision requires
RequiredNames ==
    {n \in UNION {DOMAIN DecisionDeps(k) : k \in 1..Len(stack)} :
        \E k \in 1..Len(stack) :
            n \in DOMAIN DecisionDeps(k) /\ DecisionDeps(k)[n].req = "Required"}

\* potential_packages: a positive term and no decision yet
Potential == (RequiredNames \cup {ROOT_NAME}) \ Decided

\* the search found its terms contradictory
Conflict == \E n \in Potential : SubsetEq(RangeOf(n), Empty)

Orders(S) ==
    {f \in [1..Cardinality(S) -> S] :
        \A i, j \in 1..Cardinality(S) : f[i] = f[j] => i = j}

\* the orders in which the search may offer the candidates: the iterator
\* choose_package_version receives walks the maps of the search, whose order
\* is a function of the names they hold; the function is not known here, so
\* a set of names is offered in any order the first time and in that same
\* order every time after, in this solve and in every other
OfferOrders(potential) ==
    IF potential \in DOMAIN offers THEN {offers[potential]}
    ELSE Orders(potential)

\* the candidates as the search offers them in the order given
Offer(order) ==
    [k \in 1..Len(order) |-> [package |-> order[k], range |-> RangeOf(order[k])]]

\* a decision cannot stand with the decisions made before it
Clash(deps) ==
    \E k \in 1..Len(stack) :
        /\ stack[k].package \in DOMAIN deps
        /\ ~contains_index(deps[stack[k].package].range, stack[k].index)

\* mutant of Solution: the variants of source 0 are kept
SolutionKeepVirtual(decisions) ==
    {<<IF decisions[k].src > 0 THEN repo_datas[decisions[k].src].channel
       ELSE NoneV, decisions[k].rec>> :
        k \in {j \in 1..Len(decisions) : decisions[j].package # ROOT_NAME}}

\* the Ok arm of solve: the root set and the variants of source 0 are
\* dropped, the others paired with the channel of their source
Solution(decisions) ==
    {<<repo_datas[decisions[k].src].channel, decisions[k].rec>> :
        k \in {j \in 1..Len(decisions) :
                 /\ decisions[j].package # ROOT_NAME
                 /\ decisions[j].src > 0}}

\* the variant a decision selects, with the name of its package
Selected1(package, variant) ==
    [package |-> package, src |-> variant.src, rec |-> variant.rec]

\* the decisions with the variant each one selects
Selection ==
    [k \in 1..Len(stack) |->
        Selected1(stack[k].package,
            package_variants(stack[k].package).variants[stack[k].index])]

(***************************************************************************)
(* The inputs of the solver behaviours: two sources, the packages a        *)
(* (a variant in each source), b, d (whose only variant depends on a       *)
(* package no source has), m (whose only entry does not parse), the        *)
(* virtual package __v.                                                    *)
(***************************************************************************)
MaxSpecs == 2

AnySpec(name) == MkSpec(name, NoVersion, "*")

EqSpec(name, v) == MkSpec(name, [op |-> "==", v |-> v], "*")

NoDeps == [depends |-> <<>>, constrains |-> <<>>]

\* what the newest variant of a may depend on
DepChoicesA ==
    {NoDeps,
     [depends |-> <<EqSpec("b", 1)>>, constrains |-> <<>>],
     [depends |-> <<AnySpec("b"), EqSpec("b", 1)>>, constrains |-> <<>>],
     [depends |-> <<AnySpec("__v")>>, constrains |-> <<>>],
     [depends |-> <<AnySpec("c")>>, constrains |-> <<>>],
     [depends |-> <<AnySpec(ROOT_NAME)>>, constrains |-> <<>>],
     [depends |-> <<>>, constrains |-> <<EqSpec("b", 1)>>],
     [depends |-> <<>>, constrains |-> <<EqSpec("b", 3)>>],
     [depends |-> <<AnySpec("b")>>, constrains |-> <<EqSpec("b", 1)>>],
     [depends |-> <<EqSpec("b", 2)>>, constrains |-> <<EqSpec("b", 1)>>],
     [depends |-> <<AnySpec("b"), Unparsable>>, constrains |-> <<>>],
     [depends |-> <<AnySpec("b")>>,
      constrains |-> <<EqSpec("b", 1), Unparsable>>],
     [depends |-> <<AnySpec("c"), Unparsable>>, constrains |-> <<>>],
     [depends |-> <<AnySpec("c")>>, constrains |-> <<Unparsable>>],
     [depends |-> <<AnySpec("m"), AnySpec("c")>>, constrains |-> <<>>],
     [depends |-> <<AnySpec("c")>>, constrains |-> <<AnySpec("m")>>]}

\* what the newest variant of b may depend on
DepChoicesB ==
    {NoDeps, [depends |-> <<EqSpec("a", 1)>>, constrains |-> <<>>]}

Repos(da, db) ==
    <<[channel |-> "channel-1",
       repodata |-> [n \in {"a", "d"} |->
           IF n = "a"
           THEN <<WithDeps(MkRecord("a", 2, "0"), da.depends, da.constrains)>>
           ELSE <<WithDeps(MkRecord("d", 1, "0"), <<AnySpec("c")>>, <<>>)>>]],
      [channel |-> "channel-2",
       repodata |-> [n \in {"a", "b", "m"} |->
           IF n = "a"
           THEN <<MkRecord("a", 1, "0")>>
           ELSE IF n = "b"
           THEN <<WithDeps(MkRecord("b", 2, "0"), db.depends, db.constrains),
                  MkRecord("b", 1, "0")>>
           ELSE <<Corrupt>>]]>>

VirtualPackages == {MkRecord("__v", 1, "0")}

\* a MatchSpec whose name is None (the field is public, Default gives it)
Nameless == MkSpec(NoneV, NoVersion, "*")

SpecChoices ==
    {AnySpec("a"), EqSpec("a", 2), EqSpec("a", 3), AnySpec("b"), EqSpec("b", 2),
     AnySpec("c"), AnySpec("d"), AnySpec(ROOT_NAME)}

\* the specs get_dependencies cannot look up, with a spec that can be met
\* and one that cannot
BrokenChoices == {AnySpec("m"), Nameless, AnySpec("a"), AnySpec("c")}

SpecLists ==
    UNION {[1..n -> SpecChoices] \cup [1..n -> BrokenChoices] : n \in 0..MaxSpecs}

\* Index::new over the sources
SolInit ==
    /\ mode = "solve"
    /\ AlgIdle
    /\ InsIdle
    /\ CacheIdle
    /\ LinkIdle
    /\ RewIdle
    /\ GateIdle
    /\ OrdIdle
    /\ CompIdle
    /\ \E da \in DepChoicesA, db \in DepChoicesB : repo_datas = Repos(da, db)
    /\ cache = <<>>
    /\ again = FALSE
    /\ offers = <<>>
    /\ specs = <<>>
    /\ sphase = "new"
    /\ stack = <<>>
    /\ tried = <<>>
    /\ outcome = NoneV
    /\ result = {}
    /\ first = <<>>

\* Index::add_virtual_package: the entry is replaced and, if there was one,
\* the call panics
AddVirtualPackage == \E package \in VirtualPackages :
    /\ mode = "solve"
    /\ sphase = "new"
    /\ cache' = Insert(cache, package.name, VirtualVariants(package))
    /\ sphase' = IF package.name \in DOMAIN cache THEN "panicked" ELSE "new"
    /\ UNCHANGED <<mode, cacheVars, linkVars, rewVars, gateVars, ordVars, compVars, algVars, insVars, again, offers, repo_datas, specs, stack, tried,
                   outcome, result, first>>

\* solve up to the call of resolve: the root set replaces any entry of its name
SolveStart == \E requested \in SpecLists :
    /\ mode = "solve"
    /\ sphase = "new"
    /\ specs' = requested
    /\ cache' = Insert(cache, ROOT_NAME, RootVariants(requested))
    /\ sphase' = "run"
    /\ stack' = <<>>
    /\ tried' = <<{}>>
    /\ UNCHANGED <<mode, cacheVars, linkVars, rewVars, gateVars, ordVars, compVars, algVars, insVars, again, offers, repo_datas, outcome, result, first>>

\* get_dependencies for the variant choose_package_version returned
ChoiceDeps(choice) ==
    IF choice.ok
    THEN get_dependencies(package_variants(choice.package), choice.index)
    ELSE Unknown

\* the set choose_package_version asked the order of, after the round:
\* variants_order has set its order, get_dependencies has asked for the
\* dependencies of the chosen variant
ChosenSetAfterRound(min, sorted, choice) ==
    FillCells(AfterVariantsOrder(package_variants(min.package), sorted),
              IF choice.ok THEN {choice.index} ELSE {})

\* package_variants_cache after one round of the search over the offered
\* candidates
CacheAfterRound(offered, sorted, choice) ==
    LET best == IF FirstLookupErr(offered) # 0 THEN 0 ELSE MinPackage(offered)
        looked_up ==
            CacheAfter(
                OfferedLookups(offered)
                  \cup (IF best = 0 THEN {}
                        ELSE VariantsOrderLookups(
                                 package_variants(offered[best].package)))
                  \cup (IF choice.ok
                        THEN GetDependenciesLookups(
                                 package_variants(choice.package), choice.index)
                        ELSE {}))
    IN  IF best = 0 THEN looked_up
        ELSE Insert(looked_up, offered[best].package,
                    ChosenSetAfterRound(offered[best], sorted, choice))

\* one round of the search that ends in a decision: choose_package_version
\* picks a variant, get_dependencies knows its dependencies
Decide ==
    /\ mode = "solve"
    /\ sphase = "run"
    /\ \E potential \in {Potential} : \E order \in OfferOrders(potential) :
       \E sorted \in ChoiceOrders(Offer(order)) :
       \E choice \in {choose_package_version(Offer(order), sorted)} :
       \E deps \in {ChoiceDeps(choice)} :
        /\ potential # {}
        /\ \A n \in potential : ~SubsetEq(RangeOf(n), Empty)
        /\ choice.ok
        /\ deps.kind = "Known"
        /\ choice.package \notin DOMAIN deps.deps
        /\ ~Clash(deps.deps)
        /\ stack' = Append(stack, [package |-> choice.package,
                                   index |-> choice.index,
                                   deps |-> deps.deps])
        /\ tried' = Append(tried, {})
        /\ cache' = CacheAfterRound(Offer(order), sorted, choice)
        /\ offers' = Insert(offers, potential, order)
    /\ UNCHANGED <<mode, cacheVars, linkVars, rewVars, gateVars, ordVars, compVars, algVars, insVars, again, repo_datas, specs, sphase,
                   outcome, result, first>>

\* one round of the search that rules the chosen variant out: its
\* dependencies are Unknown, or they contradict a decision
Exclude ==
    /\ mode = "solve"
    /\ sphase = "run"
    /\ \E potential \in {Potential} : \E order \in OfferOrders(potential) :
       \E sorted \in ChoiceOrders(Offer(order)) :
       \E choice \in {choose_package_version(Offer(order), sorted)} :
       \E deps \in {ChoiceDeps(choice)} :
        /\ potential # {}
        /\ \A n \in potential : ~SubsetEq(RangeOf(n), Empty)
        /\ choice.ok
        /\ \/ deps.kind = "Unknown"
           \/ /\ deps.kind = "Known"
              /\ choice.package \notin DOMAIN deps.deps
              /\ Clash(deps.deps)
        /\ tried' = [tried EXCEPT ![Len(tried)] =
                        @ \cup {<<choice.package, choice.index>>}]
        /\ cache' = CacheAfterRound(Offer(order), sorted, choice)
        /\ offers' = Insert(offers, potential, order)
    /\ UNCHANGED <<mode, cacheVars, linkVars, rewVars, gateVars, ordVars, compVars, algVars, insVars, again, repo_datas, specs, sphase,
                   stack, outcome, result, first>>

\* the Err(err) arm of solve: choose_package_version returned Err,
\* get_dependencies returned Err, or the chosen variant depends on its own
\* package
SolveError ==
    /\ mode = "solve"
    /\ sphase = "run"
    /\ \E potential \in {Potential} : \E order \in OfferOrders(potential) :
       \E sorted \in ChoiceOrders(Offer(order)) :
       \E choice \in {choose_package_version(Offer(order), sorted)} :
       \E deps \in {ChoiceDeps(choice)} :
        /\ potential # {}
        /\ \A n \in potential : ~SubsetEq(RangeOf(n), Empty)
        /\ \/ ~choice.ok
           \/ choice.ok /\ deps.kind = "Err"
           \/ /\ deps.kind = "Known"
              /\ choice.package \in DOMAIN deps.deps
        /\ cache' = CacheAfterRound(Offer(order), sorted, choice)
        /\ offers' = Insert(offers, potential, order)
    /\ outcome' = "error"
    /\ sphase' = "done"
    /\ UNCHANGED <<mode, cacheVars, linkVars, rewVars, gateVars, ordVars, compVars, algVars, insVars, again, repo_datas, specs, stack, tried,
                   result, first>>

\* solve does not return: get_dependencies came to a spec without a name and
\* expect("matchspec without package name") panicked inside resolve
SolvePanic ==
    /\ mode = "solve"
    /\ sphase = "run"
    /\ \E potential \in {Potential} : \E order \in OfferOrders(potential) :
       \E sorted \in ChoiceOrders(Offer(order)) :
       \E choice \in {choose_package_version(Offer(order), sorted)} :
       \E deps \in {ChoiceDeps(choice)} :
        /\ potential # {}
        /\ \A n \in potential : ~SubsetEq(RangeOf(n), Empty)
        /\ choice.ok
        /\ deps.kind = "Panic"
        /\ cache' = CacheAfterRound(Offer(order), sorted, choice)
        /\ offers' = Insert(offers, potential, order)
    /\ outcome' = "panic"
    /\ sphase' = "done"
    /\ UNCHANGED <<mode, cacheVars, linkVars, rewVars, gateVars, ordVars, compVars, algVars, insVars, again, repo_datas, specs, stack, tried,
                   result, first>>

\* the search undoes its last decision and rules it out
Backtrack ==
    /\ mode = "solve"
    /\ sphase = "run"
    /\ Conflict
    /\ Len(stack) >= 2
    /\ stack' = SubSeq(stack, 1, Len(stack) - 1)
    /\ tried' = [SubSeq(tried, 1, Len(stack)) EXCEPT ![Len(stack)] =
                    @ \cup {<<stack[Len(stack)].package,
                              stack[Len(stack)].index>>}]
    /\ UNCHANGED <<mode, cacheVars, linkVars, rewVars, gateVars, ordVars, compVars, algVars, insVars, again, offers, repo_datas, cache, specs, sphase,
                   outcome, result, first>>

\* the Err(NoSolution) arm of solve: nothing is left to undo but the root,
\* the error is the report of the derivation tree
NoSolution ==
    /\ mode = "solve"
    /\ sphase = "run"
    /\ Conflict
    /\ Len(stack) <= 1
    /\ outcome' = "nosolution"
    /\ sphase' = "done"
    /\ UNCHANGED <<mode, cacheVars, linkVars, rewVars, gateVars, ordVars, compVars, algVars, insVars, again, offers, repo_datas, cache, specs, stack,
                   tried, result, first>>

\* the Ok arm of solve: every required package has a decision
SolveOk ==
    /\ mode = "solve"
    /\ sphase = "run"
    /\ ~Conflict
    /\ Potential = {}
    /\ outcome' = "ok"
    /\ result' = Solution(Selection)
    /\ sphase' = "done"
    /\ UNCHANGED <<mode, cacheVars, linkVars, rewVars, gateVars, ordVars, compVars, algVars, insVars, again, offers, repo_datas, cache, specs, stack,
                   tried, first>>

\* the virtual packages that were added to the index
Injected ==
    {n \in DOMAIN cache \ {ROOT_NAME} :
        cache[n].variants # <<>> /\ cache[n].variants[1].src = 0}

\* a second index over the same sources with the same virtual packages,
\* and solve on it with the same specs in another order
ReSolve == \E p \in Orders(1..Len(specs)) :
    /\ mode = "solve"
    /\ sphase = "done"
    /\ first = <<>>
    /\ [i \in 1..Len(specs) |-> specs[p[i]]] # specs
    /\ first' = <<[outcome |-> outcome, result |-> result]>>
    /\ specs' = [i \in 1..Len(specs) |-> specs[p[i]]]
    /\ cache' = Insert([n \in Injected |->
                            VirtualVariants(cache[n].variants[1].rec)],
                       ROOT_NAME,
                       RootVariants([i \in 1..Len(specs) |-> specs[p[i]]]))
    /\ sphase' = "run"
    /\ stack' = <<>>
    /\ tried' = <<{}>>
    /\ outcome' = NoneV
    /\ result' = {}
    /\ UNCHANGED <<mode, cacheVars, linkVars, rewVars, gateVars, ordVars, compVars, algVars, insVars, again, offers, repo_datas>>

\* what the second solve on an index is asked for
AgainLists == {<<AnySpec("b")>>}

\* solve called once more on the same index, up to the call of resolve: the
\* root set replaces the one of the solve before, the other entries stay
SolveAgain == \E requested \in AgainLists :
    /\ mode = "solve"
    /\ sphase = "done"
    /\ ~again
    /\ first = <<>>
    /\ again' = TRUE
    /\ specs' = requested
    /\ cache' = Insert(cache, ROOT_NAME, RootVariants(requested))
    /\ sphase' = "run"
    /\ stack' = <<>>
    /\ tried' = <<{}>>
    /\ outcome' = NoneV
    /\ result' = {}
    /\ UNCHANGED <<mode, cacheVars, linkVars, rewVars, gateVars, ordVars, compVars, algVars, insVars, offers, repo_datas, first>>

SolNext ==
    \/ AddVirtualPackage
    \/ SolveAgain
    \/ SolveStart
    \/ Decide
    \/ Exclude
    \/ SolveError
    \/ SolvePanic
    \/ Backtrack
    \/ NoSolution
    \/ SolveOk
    \/ ReSolve

SpecSolve == SolInit /\ [][SolNext]_vars

(***************************************************************************)
(* Claims about solve.                                                     *)
(***************************************************************************)
SolveDone == mode = "solve" /\ sphase = "done"

\* the records of the virtual packages that were added to the index
InjectedRecords == {cache[n].variants[1].rec : n \in Injected}

\* the records that may satisfy a dependency of rec: the other returned
\* records and the virtual packages
Providers(rec) == ({e[2] : e \in result} \ {rec}) \cup InjectedRecords

\* C4: after a successful solve every depends spec of every returned record
\* is matched by exactly one record that is another returned record or an
\* injected virtual package.
C4_DependsSatisfied ==
    (SolveDone /\ outcome = "ok") =>
        \A e \in result : \A i \in 1..Len(e[2].depends) :
            Cardinality({r \in Providers(e[2]) :
                            matches(e[2].depends[i], r)}) = 1

\* C5: solve on the same specs in another order returns the same outcome
\* and, compared as sets, the same records.
C5_OrderIndependent ==
    (SolveDone /\ first # <<>>) =>
        first[1] = [outcome |-> outcome, result |-> result]

\* the k-th source supplied the record rec to a decision of the search
SuppliedBy(k, rec) ==
    /\ \E j \in 1..Len(records(repo_datas[k].repodata, rec.name).records) :
           records(repo_datas[k].repodata, rec.name).records[j] = rec
    /\ \E d \in 1..Len(stack) :
           package_variants(stack[d].package).variants[stack[d].index]
               = Variant(k, rec)

\* C6: the result of solve holds neither the root package nor a virtual
\* package, and pairs every record with the channel of the source that
\* supplied it.
C6_ResultFromSources ==
    SolveDone =>
        \A e \in result :
            /\ e[2].name # ROOT_NAME
            /\ e[2] \notin InjectedRecords
            /\ \E k \in 1..Len(repo_datas) :
                   repo_datas[k].channel = e[1] /\ SuppliedBy(k, e[2])

\* a successful solve that selected the root, a virtual package and records
\* of both sources
C6_Witness ==
    /\ SolveDone
    /\ outcome = "ok"
    /\ \E d \in 1..Len(stack) : stack[d].package \in Injected
    /\ {e[1] : e \in result} = {"channel-1", "channel-2"}

\* the requested spec names a package whose variants are known (the lookup
\* of the package returns Ok) and matches none of them
MatchesNothing(match_spec) ==
    /\ match_spec.name # NoneV
    /\ ~PackageVariantsErr(match_spec.name)
    /\ subset_size(package_variants(match_spec.name),
           subset_from_matchspec(package_variants(match_spec.name),
                                 match_spec)) = 0

\* C7 as claimed: if a requested spec matches no variant, solve returns the
\* no-solution error with the derivation report.
C7_UnmatchedSpecFails ==
    (SolveDone /\ \E i \in 1..Len(specs) : MatchesNothing(specs[i])) =>
        outcome = "nosolution"

\* the i-th requested spec has no name, or the lookup of its package fails
FailsAt(i) ==
    specs[i].name = NoneV \/ PackageVariantsErr(specs[i].name)

\* no variant of the package of the i-th requested spec is matched by all
\* the requested specs of that name up to the i-th
UnsatisfiedAt(i) ==
    /\ ~FailsAt(i)
    /\ \A j \in 1..Len(package_variants(specs[i].name).variants) :
           \E h \in 1..i :
               /\ specs[h].name = specs[i].name
               /\ ~matches(specs[h],
                           package_variants(specs[i].name).variants[j].rec)

\* the i-th requested spec is the first, in the order of the list, that
\* cannot be met
StopsAt(i) ==
    /\ UnsatisfiedAt(i) \/ FailsAt(i)
    /\ \A h \in 1..(i - 1) : ~(UnsatisfiedAt(h) \/ FailsAt(h))

\* C7: if a requested spec matches no variant, solve never returns Ok.  It
\* returns the no-solution error with the derivation report when the first
\* requested spec that cannot be met is one that leaves its package without
\* a matching variant; when that spec has no name solve panics, and when it
\* names a package whose repodata entries do not parse solve returns that
\* error.
C7_UnmatchedSpecNeverOk ==
    (SolveDone /\ \E i \in 1..Len(specs) : MatchesNothing(specs[i])) =>
        /\ outcome # "ok"
        /\ \A i \in 1..Len(specs) :
               StopsAt(i) =>
                   outcome = IF specs[i].name = NoneV THEN "panic"
                             ELSE IF PackageVariantsErr(specs[i].name)
                             THEN "error"
                             ELSE "nosolution"

\* solve failed on two specs of which one matches variants and the other,
\* of a package that has variants, matches none
C7_Witness ==
    /\ SolveDone
    /\ outcome = "nosolution"
    /\ \E i, j \in 1..Len(specs) :
        /\ MatchesNothing(specs[i])
        /\ package_variants(specs[i].name).variants # <<>>
        /\ ~MatchesNothing(specs[j])

\* the packages a candidate list may name: with variants in both sources,
\* in one, in none, and the root
CandidateNames == {"a", "b", "c", ROOT_NAME}

\* the subsets a candidate may carry: the term the search holds for the
\* package, Empty, Full, and every singleton and its complement
CandidateRanges(n) ==
    {Empty, Full, RangeOf(n)}
      \cup {singleton(package_variants(n), i) :
                i \in 1..Len(package_variants(n).variants)}
      \cup {complement(singleton(package_variants(n), i)) :
                i \in 1..Len(package_variants(n).variants)}

Candidates ==
    UNION {{[package |-> n, range |-> r] : r \in CandidateRanges(n)} :
               n \in CandidateNames}

\* candidate lists of one or two different packages
CandidateLists ==
    {<<c>> : c \in Candidates}
      \cup {p \in Candidates \X Candidates : p[1].package # p[2].package}

SizeOf(c) == subset_size(package_variants(c.package), c.range)

\* index comes before every other index of the order that the range contains
FirstInOrder(c, index, sorted) ==
    LET order == variants_order(package_variants(c.package), sorted)
    IN  \E k \in 1..Len(order) :
            /\ order[k] = index
            /\ contains_index(c.range, index)
            /\ \A j \in 1..(k - 1) : ~contains_index(c.range, order[j])

\* what C27 asks of the answer r to the candidate list p, sorted being what
\* sort_by leaves if the order has to be computed
ChoiceIsMinimal(p, r, sorted) ==
    LET positive == {i \in 1..Len(p) : SizeOf(p[i]) > 0}
    IN  IF positive = {} THEN ~r.ok
        ELSE /\ r.ok
             /\ \E i \in positive :
                    /\ p[i].package = r.package
                    /\ \A j \in positive : SizeOf(p[i]) <= SizeOf(p[j])
                    /\ FirstInOrder(p[i], r.index, sorted)

\* C27: for every list of (package, subset) candidates over the index,
\* choose_package_version selects a candidate whose subset_size is the least
\* among the candidates of positive size and returns the first variant of
\* the precomputed order that the offered subset contains; a candidate of
\* size zero is never selected, a variant outside the subset never returned.
C27_ChooseMinimal ==
    (mode = "solve" /\ sphase = "run") =>
        \A p \in CandidateLists : \A sorted \in ChoiceOrders(p) :
            ChoiceIsMinimal(p, choose_package_version(p, sorted), sorted)

\* the search was offered a with one variant left and b with two, and
\* decided a
C27_Witness ==
    /\ mode = "solve"
    /\ sphase = "run"
    /\ Len(stack) = 2
    /\ stack[2].package = "a"
    /\ SizeOf([package |-> "a", range |-> DepTerms("a", 1, Full)]) = 1
    /\ SizeOf([package |-> "b", range |-> DepTerms("b", 1, Full)]) = 2
    /\ contains_index(DepTerms("a", 1, Full), stack[2].index)

\* the variants of the index, as (package, index) pairs
IndexVariants ==
    UNION {{<<n, i>> : i \in 1..Len(package_variants(n).variants)} :
               n \in {"a", "b", "d", "__v", ROOT_NAME}}

\* the names the specs of a list carry
SpecNames(match_specs) == {match_specs[k].name : k \in 1..Len(match_specs)}

\* the constrains of a variant
ConstrainsOf(e) == package_variants(e[1]).variants[e[2]].rec.constrains

\* the depends of a variant, as Index::dependencies gives them (none if
\* they do not parse)
DependsOf(e) == UnwrapOrEmpty(dependencies(package_variants(e[1]), e[2]))

\* every depends and constrains spec of e that names m matches the j-th
\* variant of m
AllSpecsMatch(e, m, j) ==
    /\ \A k \in 1..Len(DependsOf(e)) :
           DependsOf(e)[k].name = m =>
               matches(DependsOf(e)[k], package_variants(m).variants[j].rec)
    /\ \A k \in 1..Len(ConstrainsOf(e)) :
           ConstrainsOf(e)[k].name = m =>
               matches(ConstrainsOf(e)[k], package_variants(m).variants[j].rec)

\* what C28 asks of the Known map d of the variant e
EdgesAreIntersections(e, d) ==
    /\ DOMAIN d = SpecNames(DependsOf(e)) \cup SpecNames(ConstrainsOf(e))
    /\ \A m \in DOMAIN d :
        /\ d[m].req = "Required" <=> m \in SpecNames(DependsOf(e))
        /\ d[m].req = "Constrained" <=> m \notin SpecNames(DependsOf(e))
        /\ \A j \in 1..Len(package_variants(m).variants) :
               contains_index(d[m].range, j) <=> AllSpecsMatch(e, m, j)

\* C28: the map get_dependencies returns for a variant has, for every name
\* its depends and constrains specs carry, one edge; the edge selects the
\* variants that every spec of that name matches; it is Required when a
\* depends spec carries the name and Constrained when only constrains specs do.
C28_EdgesPerName ==
    mode = "solve" =>
        \A e \in IndexVariants :
            \A d \in {get_dependencies(package_variants(e[1]), e[2])} :
                d.kind = "Known" => EdgesAreIntersections(e, d.deps)

\* the search decided a variant of a whose depends and constrains both name
\* b; the edge is Required and selects some but not all variants of b
C28_Witness ==
    /\ mode = "solve"
    /\ \E k \in 1..Len(stack) :
        /\ stack[k].package = "a"
        /\ "b" \in SpecNames(DependsOf(<<"a", stack[k].index>>))
        /\ "b" \in SpecNames(ConstrainsOf(<<"a", stack[k].index>>))
        /\ "b" \in DOMAIN stack[k].deps
        /\ stack[k].deps["b"].req = "Required"
        /\ stack[k].deps["b"].range.tag = "Discrete"

\* no variant of m satisfies every spec of e that names m
EmptyAfterIntersection(e, m) ==
    \A j \in 1..Len(package_variants(m).variants) : ~AllSpecsMatch(e, m, j)

\* C29: if for some name of the depends or constrains specs of a chosen
\* variant the intersected subset is Empty, get_dependencies of the variant
\* returns Unknown (so the search never holds a decision for such a variant).
C29_EmptyIsUnknown ==
    mode = "solve" =>
        \A k \in 1..Len(stack) :
            \A e \in {<<stack[k].package, stack[k].index>>} :
                (\E m \in SpecNames(DependsOf(e)) \cup SpecNames(ConstrainsOf(e)) :
                     EmptyAfterIntersection(e, m)) =>
                    get_dependencies(package_variants(e[1]), e[2]).kind = "Unknown"

\* the depends of a variant as get_dependencies finds them: the specs of the
\* cell, or the strings of the record, parsable or not
RawDepends(e) ==
    IF package_variants(e[1]).dependencies[e[2]].init
    THEN package_variants(e[1]).dependencies[e[2]].specs
    ELSE package_variants(e[1]).variants[e[2]].rec.depends

\* the spec names a package of the set names that has no variant
NamesMissing(match_spec, names) ==
    /\ match_spec.name \in names
    /\ ~PackageVariantsErr(match_spec.name)
    /\ package_variants(match_spec.name).variants = <<>>

\* a depends spec of the variant e names a package of the set names that has
\* no variant
MissingDepends(e, names) ==
    \E k \in 1..Len(RawDepends(e)) : NamesMissing(RawDepends(e)[k], names)

\* the spec has a name and the lookup of its package returns Ok
LooksUp(match_spec) ==
    match_spec.name # NoneV /\ ~PackageVariantsErr(match_spec.name)

\* every depends and constrains string of the variant e parses
AllParse(e) ==
    /\ \A k \in 1..Len(RawDepends(e)) : RawDepends(e)[k] # Unparsable
    /\ \A k \in 1..Len(ConstrainsOf(e)) : ConstrainsOf(e)[k] # Unparsable

\* get_dependencies of the variant e comes to a depends spec that names a
\* package of the set names without variants: all strings of e parse, and
\* the constrains specs and the depends specs before that one have a name
\* whose lookup returns Ok
ReachesMissing(e, names) ==
    /\ AllParse(e)
    /\ \A k \in 1..Len(ConstrainsOf(e)) : LooksUp(ConstrainsOf(e)[k])
    /\ \E k \in 1..Len(RawDepends(e)) :
           /\ NamesMissing(RawDepends(e)[k], names)
           /\ \A j \in 1..(k - 1) : LooksUp(RawDepends(e)[j])

\* the names that are not virtual
PlainNames == {"a", "b", "c", "d"}

\* the variant e was ruled out by the search
Abandoned(e) == \E k \in 1..Len(tried) : e \in tried[k]

\* the variants the search may be given when it offers its candidates in
\* order
ChoicesOf(order) ==
    {choose_package_version(Offer(order), sorted) :
        sorted \in ChoiceOrders(Offer(order))}

\* whatever the order of the candidates, the variant chosen next has a
\* depends spec that names a package without variants
NextChoiceMisses ==
    /\ mode = "solve"
    /\ sphase = "run"
    /\ ~Conflict
    /\ Potential # {}
    /\ \A order \in OfferOrders(Potential) : \A choice \in ChoicesOf(order) :
           /\ choice.ok
           /\ MissingDepends(<<choice.package, choice.index>>,
                             VirtualNames \cup PlainNames)

\* C30 as claimed: when a depends spec of a variant names a package without
\* variants, virtual or not, get_dependencies returns Unknown, which is no
\* error: the search never holds a decision for such a variant, and when
\* such a variant is chosen the solve does not end; the variant is ruled out
\* and the search goes on to choose again.
C30_MissingPackageIsUnknown ==
    /\ [](mode = "solve" =>
            /\ \A e \in IndexVariants :
                   MissingDepends(e, VirtualNames \cup PlainNames) =>
                       get_dependencies(package_variants(e[1]), e[2]) = Unknown
            /\ \A k \in 1..Len(stack) :
                   ~MissingDepends(<<stack[k].package, stack[k].index>>,
                                   VirtualNames \cup PlainNames))
    /\ [][NextChoiceMisses =>
            /\ sphase' = "run"
            /\ outcome' = outcome
            /\ stack' = stack
            /\ \E order \in OfferOrders(Potential) :
               \E choice \in ChoicesOf(order) :
                   tried' = [tried EXCEPT ![Len(tried)] =
                       @ \cup {<<choice.package, choice.index>>}]]_vars

\* whatever the order of the candidates, get_dependencies of the variant
\* chosen next comes to a depends spec that names a package without variants
NextChoiceReachesMissing ==
    /\ mode = "solve"
    /\ sphase = "run"
    /\ ~Conflict
    /\ Potential # {}
    /\ \A order \in OfferOrders(Potential) : \A choice \in ChoicesOf(order) :
           /\ choice.ok
           /\ ReachesMissing(<<choice.package, choice.index>>,
                             VirtualNames \cup PlainNames)

\* C30: when get_dependencies of a variant comes to a depends spec that
\* names a package without variants, virtual or not (every depends and
\* constrains string of the variant parses, and every spec handled before
\* that one has a name and a package whose repodata entries parse), it
\* returns Unknown, which is no error: when such a variant is chosen the
\* solve does not end, the variant is ruled out and the search goes on to
\* choose again.  When a depends or constrains string of the variant does
\* not parse, get_dependencies returns Err.  Either way the search never
\* holds a decision for a variant with such a depends spec.
C30_ReachedMissingIsUnknown ==
    /\ [](mode = "solve" =>
            /\ \A e \in IndexVariants :
                   /\ ReachesMissing(e, VirtualNames \cup PlainNames) =>
                          get_dependencies(package_variants(e[1]), e[2])
                              = Unknown
                   /\ (/\ MissingDepends(e, VirtualNames \cup PlainNames)
                       /\ ~AllParse(e)) =>
                          get_dependencies(package_variants(e[1]), e[2])
                              = DependenciesErr
            /\ \A k \in 1..Len(stack) :
                   ~MissingDepends(<<stack[k].package, stack[k].index>>,
                                   VirtualNames \cup PlainNames))
    /\ [][NextChoiceReachesMissing =>
            /\ sphase' = "run"
            /\ outcome' = outcome
            /\ stack' = stack
            /\ \E order \in OfferOrders(Potential) :
               \E choice \in ChoicesOf(order) :
                   tried' = [tried EXCEPT ![Len(tried)] =
                       @ \cup {<<choice.package, choice.index>>}]]_vars

\* a solve that ruled out a variant of a for its dependency on a package no
\* source has, and succeeded with the other variant of a
C30_Witness ==
    /\ SolveDone
    /\ outcome = "ok"
    /\ \E e \in IndexVariants :
        /\ e[1] = "a"
        /\ Abandoned(e)
        /\ ReachesMissing(e, PlainNames)
        /\ \E k \in 1..Len(stack) : stack[k].package = "a" /\ stack[k].index # e[2]

\* the step stays within one index (ReSolve builds another one)
SameIndex == mode = "solve" /\ first' = first

RECURSIVE Offset(_, _)
\* the number of records the sources before the k-th have under the name n
Offset(n, k) ==
    IF k <= 1 THEN 0
    ELSE Offset(n, k - 1) + Len(records(repo_datas[k - 1].repodata, n).records)

\* the variants are the records of all sources under n, in source order,
\* each with the index of its source
ConcatenatedInSourceOrder(n, variants) ==
    /\ Len(variants) = Offset(n, Len(repo_datas) + 1)
    /\ \A k \in 1..Len(repo_datas) :
        \A j \in 1..Len(records(repo_datas[k].repodata, n).records) :
            variants[Offset(n, k) + j] =
                Variant(k, records(repo_datas[k].repodata, n).records[j])

\* the two sets hold the same variants under the same name
SameVariants(one, other) ==
    one.name = other.name /\ one.variants = other.variants

\* later is the set earlier at a later time: the same variants, and every
\* cell that was filled holds what it held (a cell is filled once, as the
\* set is used, and a new set starts with its cells unset)
SameSet(earlier, later) ==
    /\ SameVariants(earlier, later)
    /\ earlier.solver_order # <<>> => later.solver_order = earlier.solver_order
    /\ \A i \in 1..Len(earlier.dependencies) :
           earlier.dependencies[i].init =>
               later.dependencies[i] = earlier.dependencies[i]

\* C31 as claimed: within one index the set of every name, once in the
\* cache, is the same at every later lookup, whatever lookups, ordering,
\* dependency and solve operations come between.
C31_CachedForever ==
    [][SameIndex =>
          \A n \in DOMAIN cache :
              n \in DOMAIN cache' /\ SameSet(cache[n], cache'[n])]_vars

\* C31: within one index the set of a name other than __ROOT__ is created
\* on the first lookup from the records of all sources in source order, and
\* every later lookup returns that set; the set of __ROOT__ is the one the
\* last solve inserted.  (A call of add_virtual_package for a name that has
\* an entry replaces the entry and panics; such a step is set aside.)
C31_CachedExceptRoot ==
    [][(SameIndex /\ sphase' # "panicked") =>
          /\ \A n \in DOMAIN cache \ {ROOT_NAME} :
                 n \in DOMAIN cache' /\ SameSet(cache[n], cache'[n])
          /\ \A n \in DOMAIN cache' \ (DOMAIN cache \cup {ROOT_NAME}) :
                 sphase = "run" =>
                     ConcatenatedInSourceOrder(n, cache'[n].variants)
          /\ (ROOT_NAME \in DOMAIN cache' /\ sphase' = "run") =>
                 /\ SameVariants(cache'[ROOT_NAME], RootVariants(specs'))
                 /\ cache'[ROOT_NAME].dependencies =
                        RootVariants(specs').dependencies]_vars

\* a second solve on an index has ended; the sets of a (two sources), of b
\* and of an added virtual package were looked up on the way
C31_Witness ==
    /\ SolveDone
    /\ again
    /\ {"a", "b", "__v", ROOT_NAME} \subseteq DOMAIN cache
    /\ Len(cache["a"].variants) = 2
    /\ cache["__v"].variants # <<>>

(***************************************************************************)
(* Claims about the result of install_prefix (checked under SpecInstall).  *)
(***************************************************************************)
\* C23: when the install task of a package fails, whatever the step, the
\* result of install_prefix is an error; install_prefix returns Ok only
\* when the task of every package has completed successfully.
C23_FailurePropagates ==
    mode = "install" =>
        /\ install_result = "Ok" => \A t \in Tasks : pc[t] = "done"
        /\ (\E t \in Tasks : pc[t] = "failed") => install_result # "Ok"
        /\ install_result = "Err" =>
               \/ \E t \in Tasks : pc[t] = "failed"
               \/ \A t \in Tasks : pc[t] = "new"
        /\ (install_result = "none" /\ \E t \in Tasks : pc[t] = "failed") =>
               ENABLED ReturnErr

\* one package was installed, the link of another failed, and install_prefix
\* returned the error
C23_Witness ==
    /\ mode = "install"
    /\ install_result = "Err"
    /\ \E t, u \in Tasks : pc[t] = "done" /\ pc[u] = "failed" /\ err[u] = "link"

\* the task of a package named python has ended with Ok: every file of it
\* is linked and the PythonInfo is published
PythonFinished ==
    \E p \in Tasks : pkgs[p].name = "python" /\ pc[p] = "done"

\* the task of a package named python has ended with an error
PythonFailed ==
    \E p \in Tasks : pkgs[p].name = "python" /\ pc[p] = "failed"

\* the task of package t is suspended in wait_for_info
Suspended(t) == \E u \in Tasks : u = t /\ pc[u] = "suspended"

\* the task of package t has left wait_for_info with the PythonInfo
Released(t) ==
    \E u \in Tasks : /\ u = t
                      /\ pc[u] \in {"link", "done", "failed"}
                      /\ info[u] # <<>>

\* C38: when every task that can run is run and every fetch, extraction and
\* link step ends, install_prefix returns; a task of a no-arch-Python
\* package that is suspended on the rendezvous goes on once the task of
\* python has finished, and once the task of python has failed
\* install_prefix returns an error.
C38_InstallReturns ==
    /\ <>(install_result # "none")
    /\ \A t \in 1..MaxPackages :
           (Suspended(t) /\ PythonFinished) ~> Released(t)
    /\ PythonFailed ~> (install_result = "Err")

(***************************************************************************)
(* The package cache: fetch_package_archive and validate_package           *)
(* (install/mod.rs), run by the install_package tasks of packages whose    *)
(* archives have the same stem, followed by the reads of info/*.json and   *)
(* the links out of the cache directory.                                   *)
(***************************************************************************)
\* the largest length of a file on disk
MaxLen == 2

\* a path on disk: what stat finds there and, for a file, its length;
\* a symlink carries the length of the regular file it points to
Missing == [type |-> "missing", len |-> 0]
Dir == [type |-> "dir", len |-> 0]
Dangling == [type |-> "dangling", len |-> 0]
RegularFile(n) == [type |-> "file", len |-> n]
SymlinkTo(n) == [type |-> "symlink", len |-> n]

\* the entries of info/paths.json of the archive; Paths::paths is a
\* HashSet, whose entries are numbered here
PathsJson ==
    << [relative_path |-> "bin/x", size_in_bytes |-> 1,
        path_type |-> "HardLink", no_link |-> FALSE],
       [relative_path |-> "lib/y", size_in_bytes |-> 2,
        path_type |-> "HardLink", no_link |-> TRUE] >>

InfoFiles == {"info/paths.json", "info/index.json"}
EntryPaths == {PathsJson[i].relative_path : i \in 1..Len(PathsJson)}
\* a path that is not a member of the archive
OtherPaths == {"old/z"}
CachePaths == InfoFiles \cup EntryPaths \cup OtherPaths

\* the length an archive member has once it is written completely
FullLen(path) ==
    IF path \in InfoFiles THEN 1
    ELSE PathsJson[CHOOSE i \in 1..Len(PathsJson) :
                       PathsJson[i].relative_path = path].size_in_bytes

\* what is at the cache path of the stem: nothing, a file, or a directory
\* with the state of each path under it
Absent == [kind |-> "absent", files |-> [p \in CachePaths |-> Missing]]
AFile == [kind |-> "file", files |-> [p \in CachePaths |-> Missing]]
Extracted ==
    [kind |-> "dir",
     files |-> [p \in CachePaths |->
                   IF p \in OtherPaths THEN Missing ELSE RegularFile(FullLen(p))]]

\* tokio::fs::metadata follows links; <<>> is Err
metadata(f) ==
    IF f.type \in {"missing", "dangling"} THEN <<>>
    ELSE <<[is_file |-> f.type \in {"file", "symlink"}, len |-> f.len]>>

\* tokio::fs::symlink_metadata stats the path itself; <<>> is Err
symlink_metadata(f) ==
    IF f.type = "missing" THEN <<>>
    ELSE <<[is_file |-> f.type = "file", len |-> f.len]>>

\* the body of validate_package_entry from the two stat results on
MatchMetadata(m, sm, entry) ==
    IF m = <<>> /\ sm = <<>> THEN "FileMetaDataError"
    ELSE IF sm # <<>> THEN "Ok"
    ELSE IF ~m[1].is_file THEN "NotAFile"
    ELSE IF m[1].len # entry.size_in_bytes THEN "FileSizeMismatch"
    ELSE "Ok"

validate_package_entry(archive_path, entry) ==
    MatchMetadata(metadata(archive_path.files[entry.relative_path]),
                  symlink_metadata(archive_path.files[entry.relative_path]),
                  entry)

\* File::open then serde_json::from_reader of an info file: a truncated
\* file does not deserialize
ReadJson(archive_path, path) ==
    IF archive_path.kind # "dir" \/ metadata(archive_path.files[path]) = <<>>
    THEN "CouldNotOpen"
    ELSE IF archive_path.files[path] \in
            {RegularFile(FullLen(path)), SymlinkTo(FullLen(path))}
    THEN "Ok"
    ELSE "CouldNotDeserialize"

\* the orders in which paths.paths.iter() can yield the entries of the
\* HashSet
EntryOrders ==
    {order \in [1..Len(PathsJson) -> 1..Len(PathsJson)] :
        \A i, j \in 1..Len(PathsJson) : order[i] = order[j] => i = j}

\* the loop of validate_package over the entries from the i-th of the
\* order on
RECURSIVE ValidateEntries(_, _, _)
ValidateEntries(archive_path, order, i) ==
    IF i > Len(order) THEN "Ok"
    ELSE IF validate_package_entry(archive_path, PathsJson[order[i]]) # "Ok"
    THEN validate_package_entry(archive_path, PathsJson[order[i]])
    ELSE ValidateEntries(archive_path, order, i + 1)

\* validate_package on a directory that nothing else changes meanwhile
validate_package(archive_path, order) ==
    IF ReadJson(archive_path, "info/paths.json") = "CouldNotOpen"
    THEN "CouldNotOpenPathsJson"
    ELSE IF ReadJson(archive_path, "info/paths.json") = "CouldNotDeserialize"
    THEN "CouldNotDeserializePaths"
    ELSE ValidateEntries(archive_path, order, 1)

\* the archive streams info/paths.json first; info/index.json comes before
\* or after the files that paths.json lists
ArchiveOrders ==
    { <<"info/paths.json", "info/index.json", "bin/x", "lib/y">>,
      <<"info/paths.json", "bin/x", "lib/y", "info/index.json">> }

\* how many install_package tasks have archives of the same stem
TaskCounts == {1, 2}

\* what an earlier run or anything else can have left at a listed path
EntryStates ==
    {Missing, Dir, Dangling} \cup {RegularFile(n) : n \in 0..MaxLen}
    \cup {SymlinkTo(n) : n \in 1..MaxLen}

InfoStates == {Missing, RegularFile(0), RegularFile(1)}

InitialDirs ==
    { [kind |-> "dir", files |-> f] :
        f \in { g \in [CachePaths -> EntryStates \cup InfoStates] :
                  /\ \A p \in InfoFiles : g[p] \in InfoStates
                  /\ \A p \in EntryPaths : g[p] \in EntryStates
                  /\ \A p \in OtherPaths : g[p] \in {Missing, RegularFile(1)} } }

CacheInit ==
    /\ mode = "cache"
    /\ AlgIdle
    /\ InsIdle
    /\ SolIdle
    /\ LinkIdle
    /\ RewIdle
    /\ GateIdle
    /\ OrdIdle
    /\ CompIdle
    /\ archive \in ArchiveOrders
    /\ destination \in {Absent, AFile} \cup InitialDirs
    /\ \E n \in TaskCounts :
        /\ ctask = [t \in 1..n |-> "is_dir"]
        /\ cnext = [t \in 1..n |-> 1]
        /\ cpart = [t \in 1..n |-> FALSE]
        /\ clocal = [t \in 1..n |-> <<>>]
        /\ clog = [t \in 1..n |-> <<>>]

\* what the cache actions never change
CacheFrame ==
    UNCHANGED <<mode, algVars, insVars, solVars, linkVars, rewVars, gateVars,
                ordVars, compVars, archive>>

\* the elements of a sequence
Range(seq) == {seq[i] : i \in 1..Len(seq)}

\* fetch_package_archive: `if destination.is_dir()` before validating
IsDir(t) ==
    /\ mode = "cache"
    /\ ctask[t] = "is_dir"
    /\ ctask' = [ctask EXCEPT ![t] =
                    IF destination.kind = "dir" THEN "validate" ELSE "clean"]
    /\ UNCHANGED <<destination, cnext, cpart, clocal, clog>>
    /\ CacheFrame

\* validate_package: the blocking task has read info/paths.json
ValidateReadPaths(t) ==
    /\ mode = "cache"
    /\ ctask[t] = "validate"
    /\ ReadJson(destination, "info/paths.json") = "Ok"
    /\ ctask' = [ctask EXCEPT ![t] = "entries"]
    /\ UNCHANGED <<destination, cnext, cpart, clocal, clog>>
    /\ CacheFrame

\* one of the two stat calls of validate_package_entry
Stat(which, f) == IF which = "metadata" THEN metadata(f) ELSE symlink_metadata(f)

\* the entries the loop of validate_package has taken from the HashSet
Visited(t) == {clocal[t][k].entry : k \in 1..Len(clocal[t])}

\* validate_package_entry runs for the entry taken last
InEntry(t) == clocal[t] # <<>> /\ clocal[t][Len(clocal[t])].stat # "done"

\* validate_package takes the next entry of the HashSet, in the order of
\* its iterator, which is any; validate_package_entry: tokio::join! runs
\* metadata and symlink_metadata on the blocking pool and one of them has
\* returned
ValidateStat(t) ==
    /\ mode = "cache"
    /\ ctask[t] = "entries"
    /\ ~InEntry(t)
    /\ \E i \in (1..Len(PathsJson)) \ Visited(t),
          which \in {"metadata", "symlink_metadata"} :
          clocal' = [clocal EXCEPT ![t] = Append(@,
              [entry |-> i, stat |-> which,
               result |-> Stat(which,
                   destination.files[PathsJson[i].relative_path])])]
    /\ UNCHANGED <<destination, ctask, cnext, cpart, clog>>
    /\ CacheFrame

\* validate_package_entry: the other stat call returns and the body runs on
\* the two results
EntryResult(t) ==
    LET cur == clocal[t][Len(clocal[t])]
        f == destination.files[PathsJson[cur.entry].relative_path]
    IN  MatchMetadata(
            IF cur.stat = "metadata" THEN cur.result ELSE metadata(f),
            IF cur.stat = "symlink_metadata" THEN cur.result
            ELSE symlink_metadata(f),
            PathsJson[cur.entry])

\* validate_package: the entry is accepted and the loop goes on
ValidateEntry(t) ==
    /\ mode = "cache"
    /\ ctask[t] = "entries"
    /\ InEntry(t)
    /\ EntryResult(t) = "Ok"
    /\ clocal' = [clocal EXCEPT ![t][Len(clocal[t])] =
                     [entry |-> @.entry, stat |-> "done", result |-> <<>>]]
    /\ UNCHANGED <<destination, ctask, cnext, cpart, clog>>
    /\ CacheFrame

\* validate_package returned Ok and the return is missing
ValidateOkNoReturn(t) ==
    /\ mode = "cache"
    /\ ctask[t] = "entries"
    /\ ~InEntry(t)
    /\ Visited(t) = 1..Len(PathsJson)
    /\ ctask' = [ctask EXCEPT ![t] = "clean"]
    /\ clocal' = [clocal EXCEPT ![t] = <<>>]
    /\ clog' = [clog EXCEPT ![t] = Append(@, "valid")]
    /\ UNCHANGED <<destination, cnext, cpart>>
    /\ CacheFrame

\* validate_package returned Ok, every entry being accepted:
\* fetch_package_archive returns destination
ValidateOk(t) ==
    /\ mode = "cache"
    /\ ctask[t] = "entries"
    /\ ~InEntry(t)
    /\ Visited(t) = 1..Len(PathsJson)
    /\ ctask' = [ctask EXCEPT ![t] = "read"]
    /\ clocal' = [clocal EXCEPT ![t] = <<>>]
    /\ clog' = [clog EXCEPT ![t] = Append(@, "valid")]
    /\ UNCHANGED <<destination, cnext, cpart>>
    /\ CacheFrame

\* validate_package returned an error, from the read of info/paths.json or
\* from an entry: warn and go on to the cleaning
ValidateErr(t) ==
    /\ mode = "cache"
    /\ \/ /\ ctask[t] = "validate"
          /\ ReadJson(destination, "info/paths.json") # "Ok"
       \/ /\ ctask[t] = "entries"
          /\ InEntry(t)
          /\ EntryResult(t) # "Ok"
    /\ ctask' = [ctask EXCEPT ![t] = "clean"]
    /\ clocal' = [clocal EXCEPT ![t] = <<>>]
    /\ clog' = [clog EXCEPT ![t] = Append(@, "invalid")]
    /\ UNCHANGED <<destination, cnext, cpart>>
    /\ CacheFrame

\* fetch_package_archive: `if destination.is_dir() .. else if
\* destination.is_file()` before the removal
CleanTest(t) ==
    /\ mode = "cache"
    /\ ctask[t] = "clean"
    /\ ctask' = [ctask EXCEPT ![t] =
                    IF destination.kind = "dir" THEN "remove_dir_all"
                    ELSE IF destination.kind = "file" THEN "remove_file"
                    ELSE "fetch"]
    /\ UNCHANGED <<destination, cnext, cpart, clocal, clog>>
    /\ CacheFrame

\* remove_dir_all on the blocking pool: lstat of the path and the open of
\* the directory; both fail when nothing is at the path (CleanError)
RemoveDirAllOpen(t) ==
    /\ mode = "cache"
    /\ ctask[t] = "remove_dir_all"
    /\ destination.kind = "dir"
    /\ ctask' = [ctask EXCEPT ![t] = "unlinking"]
    /\ UNCHANGED <<destination, cnext, cpart, clocal, clog>>
    /\ CacheFrame

\* remove_dir_all unlinks one entry of the directory it opened; an entry
\* that is gone already is passed over (NotFound is ignored)
Unlink(t) ==
    /\ mode = "cache"
    /\ ctask[t] = "unlinking"
    /\ destination.kind = "dir"
    /\ \E p \in CachePaths :
          /\ destination.files[p].type # "missing"
          /\ destination' = [destination EXCEPT !.files[p] = Missing]
    /\ UNCHANGED <<ctask, cnext, cpart, clocal, clog>>
    /\ CacheFrame

\* the tasks after task t removed the directory or the file: a task whose
\* remove_dir_all has the removed directory open finds no entry in it any
\* more and has the rmdir of the path left
AfterRemoval(t) ==
    [u \in DOMAIN ctask |->
        IF u = t THEN "fetch"
        ELSE IF ctask[u] = "unlinking" /\ destination.kind = "dir" THEN "rmdir"
        ELSE ctask[u]]

\* Clean that goes on without the removal of the directory
CleanKeepDir(t) ==
    /\ mode = "cache"
    /\ \/ /\ ctask[t] \in {"unlinking", "rmdir"}
          /\ \/ destination.kind = "absent"
             \/ /\ destination.kind = "dir"
                /\ \A p \in CachePaths : destination.files[p].type = "missing"
          /\ UNCHANGED destination
          /\ clog' = [clog EXCEPT ![t] = Append(@, "remove_dir_all")]
       \/ /\ ctask[t] = "remove_file"
          /\ destination.kind = "file"
          /\ destination' = Absent
          /\ clog' = [clog EXCEPT ![t] = Append(@, "remove_file")]
    /\ ctask' = AfterRemoval(t)
    /\ UNCHANGED <<cnext, cpart, clocal>>
    /\ CacheFrame

\* the removal returns Ok: the rmdir at the end of remove_dir_all removes
\* the emptied directory, or finds nothing at the path, which it ignores
\* like every NotFound after the open; or remove_file removes the file
Clean(t) ==
    /\ mode = "cache"
    /\ \/ /\ ctask[t] \in {"unlinking", "rmdir"}
          /\ \/ destination.kind = "absent"
             \/ /\ destination.kind = "dir"
                /\ \A p \in CachePaths : destination.files[p].type = "missing"
          /\ clog' = [clog EXCEPT ![t] = Append(@, "remove_dir_all")]
       \/ /\ ctask[t] = "remove_file"
          /\ destination.kind = "file"
          /\ clog' = [clog EXCEPT ![t] = Append(@, "remove_file")]
    /\ destination' = Absent
    /\ ctask' = AfterRemoval(t)
    /\ UNCHANGED <<cnext, cpart, clocal>>
    /\ CacheFrame

\* the removal fails and `?` returns the error: nothing is at the path when
\* remove_dir_all begins, an entry cannot be unlinked, the directory at the
\* path is not empty at the rmdir, or the file cannot be removed; what was
\* unlinked before stays unlinked
CleanError(t) ==
    /\ mode = "cache"
    /\ ctask[t] \in {"remove_dir_all", "unlinking", "rmdir", "remove_file"}
    /\ ctask' = [ctask EXCEPT ![t] = "failed"]
    /\ UNCHANGED <<destination, cnext, cpart, clocal, clog>>
    /\ CacheFrame

\* fetch_and_extract: the request is answered and the byte stream starts
FetchResponse(t) ==
    /\ mode = "cache"
    /\ ctask[t] = "fetch"
    /\ ctask' = [ctask EXCEPT ![t] = "unpack"]
    /\ cnext' = [cnext EXCEPT ![t] = 1]
    /\ cpart' = [cpart EXCEPT ![t] = FALSE]
    /\ clog' = [clog EXCEPT ![t] = Append(@, "fetch")]
    /\ UNCHANGED <<destination, clocal>>
    /\ CacheFrame

\* fetch_and_extract: send or error_for_status fails
FetchError(t) ==
    /\ mode = "cache"
    /\ ctask[t] = "fetch"
    /\ ctask' = [ctask EXCEPT ![t] = "failed"]
    /\ UNCHANGED <<destination, cnext, cpart, clocal, clog>>
    /\ CacheFrame

\* unpack creates the next member of the archive under destination
UnpackCreate(t) ==
    /\ mode = "cache"
    /\ ctask[t] = "unpack"
    /\ cnext[t] <= Len(archive)
    /\ ~cpart[t]
    /\ destination' =
        [kind |-> "dir",
         files |-> [destination.files EXCEPT ![archive[cnext[t]]] = RegularFile(0)]]
    /\ cpart' = [cpart EXCEPT ![t] = TRUE]
    /\ UNCHANGED <<ctask, cnext, clocal, clog>>
    /\ CacheFrame

\* unpack writes the content of the member it created; when the path was
\* unlinked in the meantime the bytes go to the unlinked file
UnpackWrite(t) ==
    /\ mode = "cache"
    /\ ctask[t] = "unpack"
    /\ cpart[t]
    /\ destination' =
        IF destination.kind = "dir"
           /\ destination.files[archive[cnext[t]]].type = "file"
        THEN [destination EXCEPT !.files[archive[cnext[t]]] =
                  RegularFile(FullLen(archive[cnext[t]]))]
        ELSE destination
    /\ cpart' = [cpart EXCEPT ![t] = FALSE]
    /\ cnext' = [cnext EXCEPT ![t] = @ + 1]
    /\ UNCHANGED <<ctask, clocal, clog>>
    /\ CacheFrame

\* unpack reached the end of the stream: fetch_package_archive returns
\* destination
UnpackDone(t) ==
    /\ mode = "cache"
    /\ ctask[t] = "unpack"
    /\ cnext[t] > Len(archive)
    /\ ctask' = [ctask EXCEPT ![t] = "read"]
    /\ cnext' = [cnext EXCEPT ![t] = 1]
    /\ clog' = [clog EXCEPT ![t] = Append(@, "unpack")]
    /\ UNCHANGED <<destination, cpart, clocal>>
    /\ CacheFrame

\* the stream or a write fails part-way, the check of the CRC or the read
\* of the next zip entry fails after the last member was written, or the
\* task is cancelled
UnpackError(t) ==
    /\ mode = "cache"
    /\ ctask[t] = "unpack"
    /\ ctask' = [ctask EXCEPT ![t] = "failed"]
    /\ UNCHANGED <<destination, cnext, cpart, clocal, clog>>
    /\ CacheFrame

\* install_package: one of the two blocking tasks reads its file of
\* info/index.json and info/paths.json; try_join! returns the first error,
\* or goes on when both were read
ReadInfo(t) ==
    /\ mode = "cache"
    /\ ctask[t] = "read"
    /\ \E f \in InfoFiles \ Range(clocal[t]) :
          IF ReadJson(destination, f) # "Ok"
          THEN /\ ctask' = [ctask EXCEPT ![t] = "failed"]
               /\ clocal' = [clocal EXCEPT ![t] = <<>>]
          ELSE IF Range(clocal[t]) \cup {f} = InfoFiles
          THEN /\ ctask' = [ctask EXCEPT ![t] = "link"]
               /\ clocal' = [clocal EXCEPT ![t] = <<>>]
          ELSE /\ clocal' = [clocal EXCEPT ![t] = Append(@, f)]
               /\ UNCHANGED ctask
    /\ UNCHANGED <<destination, cnext, cpart, clog>>
    /\ CacheFrame

\* link_file for an entry without prefix placeholder, into a prefix that
\* has nothing at the destination path and can be written: an entry that
\* is linked (always_copy = !no_link) ends with Ok whatever is at the source
\* path, because symlink, the fallback of hard_link, does not look at its
\* target; an entry that is copied needs a regular file behind the path
link_from_cache(f, entry) ==
    IF entry.path_type \in {"HardLink", "SoftLink"} /\ ~entry.no_link
    THEN "Ok"
    ELSE IF metadata(f) # <<>> /\ metadata(f)[1].is_file THEN "Ok"
    ELSE "error copying entry"

\* install_package: one of the link tasks, one per entry on the worker
\* pool, has run; the loop over link_tasks returns the first error
LinkFromCache(t) ==
    /\ mode = "cache"
    /\ ctask[t] = "link"
    /\ \E i \in (1..Len(PathsJson)) \ Range(clocal[t]) :
          IF link_from_cache(destination.files[PathsJson[i].relative_path],
                             PathsJson[i]) # "Ok"
          THEN /\ ctask' = [ctask EXCEPT ![t] = "failed"]
               /\ clocal' = [clocal EXCEPT ![t] = <<>>]
          ELSE IF Range(clocal[t]) \cup {i} = 1..Len(PathsJson)
          THEN /\ ctask' = [ctask EXCEPT ![t] = "done"]
               /\ clocal' = [clocal EXCEPT ![t] = <<>>]
          ELSE /\ clocal' = [clocal EXCEPT ![t] = Append(@, i)]
               /\ UNCHANGED ctask
    /\ UNCHANGED <<destination, cnext, cpart, clog>>
    /\ CacheFrame

CacheNext ==
    \/ \E t \in DOMAIN ctask : IsDir(t)
    \/ \E t \in DOMAIN ctask : ValidateReadPaths(t)
    \/ \E t \in DOMAIN ctask : ValidateStat(t)
    \/ \E t \in DOMAIN ctask : ValidateEntry(t)
    \/ \E t \in DOMAIN ctask : ValidateOk(t)
    \/ \E t \in DOMAIN ctask : ValidateErr(t)
    \/ \E t \in DOMAIN ctask : CleanTest(t)
    \/ \E t \in DOMAIN ctask : RemoveDirAllOpen(t)
    \/ \E t \in DOMAIN ctask : Unlink(t)
    \/ \E t \in DOMAIN ctask : Clean(t)
    \/ \E t \in DOMAIN ctask : CleanError(t)
    \/ \E t \in DOMAIN ctask : FetchResponse(t)
    \/ \E t \in DOMAIN ctask : FetchError(t)
    \/ \E t \in DOMAIN ctask : UnpackCreate(t)
    \/ \E t \in DOMAIN ctask : UnpackWrite(t)
    \/ \E t \in DOMAIN ctask : UnpackDone(t)
    \/ \E t \in DOMAIN ctask : UnpackError(t)
    \/ \E t \in DOMAIN ctask : ReadInfo(t)
    \/ \E t \in DOMAIN ctask : LinkFromCache(t)

SpecCache == CacheInit /\ [][CacheNext]_vars

(***************************************************************************)
(* Claims about the package cache (checked under SpecCache).               *)
(***************************************************************************)
\* task t takes the step
TaskSteps(t) ==
    <<ctask[t], cnext[t], cpart[t], clocal[t], clog[t]>> #
        <<ctask'[t], cnext'[t], cpart'[t], clocal'[t], clog'[t]>>

\* the number of times op is in a task's log
RECURSIVE Count(_, _)
Count(log, op) ==
    IF log = <<>> THEN 0
    ELSE (IF Head(log) = op THEN 1 ELSE 0) + Count(Tail(log), op)

\* C11: when the cache directory of the stem exists and passes validation,
\* the task gets that directory back and downloads, extracts, removes and
\* modifies nothing in it.
C11_ValidReused ==
    [][\A t \in DOMAIN ctask :
          (mode = "cache" /\ TaskSteps(t)
              /\ clog'[t] # <<>> /\ Head(clog'[t]) = "valid") =>
              /\ destination' = destination
              /\ clog'[t] = <<"valid">>
              /\ ctask'[t] \in {"read", "link", "done", "failed"}]_vars

\* a task found the directory valid, read its info files and linked from it
C11_Witness ==
    \E t \in DOMAIN ctask :
        /\ ctask[t] = "done"
        /\ clog[t] = <<"valid">>
        /\ destination.kind = "dir"


\* C12: a cache directory that fails validation is removed completely
\* before the extraction, the archive is fetched and extracted again exactly
\* once, and the directory the task gets back, when no other task works on
\* the stem, holds the archive and nothing older and passes validation.
C12_InvalidRefetched ==
    [][\A t \in DOMAIN ctask :
          (mode = "cache" /\ clog[t] # <<>> /\ Head(clog[t]) = "invalid") =>
              /\ (ctask[t] # "fetch" /\ ctask'[t] = "fetch") =>
                     destination' = Absent
              /\ (ctask[t] = "unpack" /\ ctask'[t] = "read") =>
                     /\ Count(clog'[t], "fetch") = 1
                     /\ Count(clog'[t], "unpack") = 1
                     /\ Len(ctask) = 1 =>
                            /\ clog'[t] =
                                 <<"invalid", "remove_dir_all", "fetch", "unpack">>
                            /\ destination' = Extracted
                            /\ \A order \in EntryOrders :
                                   validate_package(destination', order) = "Ok"]_vars

\* the only task found the directory invalid, removed it, fetched and
\* extracted the archive, and linked from the new directory
C12_Witness ==
    /\ ctask = <<"done">>
    /\ clog[1] = <<"invalid", "remove_dir_all", "fetch", "unpack">>
    /\ destination = Extracted


\* what the claim lets validation accept at the path of an entry: a regular
\* file of the recorded size, or a symbolic link
EntryAcceptable(f, entry) ==
    \/ f = RegularFile(entry.size_in_bytes)
    \/ f.type \in {"symlink", "dangling"}

\* C13: validation fails when a listed entry is missing, is not a regular
\* file, or is a regular file whose size differs from the recorded
\* size_in_bytes; only a symbolic link is accepted without a size check.
C13_ValidationChecks ==
    [][\A t \in DOMAIN ctask :
          (mode = "cache" /\ ctask[t] = "entries" /\ ctask'[t] = "read") =>
              \A i \in 1..Len(PathsJson) :
                  EntryAcceptable(destination.files[PathsJson[i].relative_path],
                                  PathsJson[i])]_vars

\* C14: an install that is interrupted or fails while it fetches or
\* extracts leaves at the cache path either nothing that validation
\* accepts or the completely extracted archive.
C14_NoPartialDirectory ==
    \A t \in DOMAIN ctask :
        (mode = "cache" /\ ctask[t] = "failed"
            /\ clog[t] # <<>> /\ clog[t][Len(clog[t])] = "fetch") =>
            \/ \A order \in EntryOrders :
                   validate_package(destination, order) # "Ok"
            \/ destination = Extracted

\* C15: no task validates, reads the info files of, or links from the
\* cache directory of a stem while another task removes it or extracts
\* into it.
C15_StemSerialized ==
    \A t, u \in DOMAIN ctask :
        (mode = "cache" /\ t # u
            /\ \/ ctask[u] \in {"remove_dir_all", "unlinking", "rmdir"}
               \/ ctask[u] = "unpack" /\ cnext[u] <= Len(archive)) =>
            ctask[t] \notin {"validate", "entries", "read", "link"}

(***************************************************************************)
(* Linking one entry: the destination path that install_package computes   *)
(* (install/mod.rs, install/python.rs) and link_file (install/link.rs).    *)
(* Paths are sequences of components.  What a rewritten file holds is the  *)
(* matter of the prefix rewriting further on; here the path only records   *)
(* which call wrote it.                                                    *)
(***************************************************************************)
\* the installation prefix
Prefix == <<"env">>

\* Path::join with a relative path
join(base, path) == base \o path

\* Path::strip_prefix compares whole components; <<>> is Err, <<rest>> is Ok
strip_prefix(path, base) ==
    IF Len(path) >= Len(base) /\ SubSeq(path, 1, Len(base)) = base
    THEN <<SubSeq(path, Len(base) + 1, Len(path))>>
    ELSE <<>>

\* PythonInfo::from_version after as_major_minor returned short_version
PythonInfo(is_windows, short_version) ==
    [short_version |-> short_version,
     path |->
        IF is_windows THEN <<"python.exe">>
        ELSE <<"bin", "python" \o ToString(short_version[1]) \o "."
                          \o ToString(short_version[2])>>,
     site_packages_path |->
        IF is_windows THEN <<"Lib", "site-packages">>
        ELSE <<"lib", "python" \o ToString(short_version[1]) \o "."
                          \o ToString(short_version[2]), "site-packages">>,
     bin_dir |-> IF is_windows THEN <<"Scripts">> ELSE <<"bin">>]

\* get_python_noarch_target_path without the python-scripts branch
TargetPathNoScripts(self, relative_path) ==
    IF strip_prefix(relative_path, <<"site-packages">>) # <<>>
    THEN join(self.site_packages_path,
              strip_prefix(relative_path, <<"site-packages">>)[1])
    ELSE relative_path

get_python_noarch_target_path(self, relative_path) ==
    IF strip_prefix(relative_path, <<"site-packages">>) # <<>>
    THEN join(self.site_packages_path,
              strip_prefix(relative_path, <<"site-packages">>)[1])
    ELSE IF strip_prefix(relative_path, <<"python-scripts">>) # <<>>
    THEN join(self.bin_dir, strip_prefix(relative_path, <<"python-scripts">>)[1])
    ELSE relative_path

\* the relative paths of the entries
RelativePaths ==
    { <<"site-packages", "pkg", "mod.py">>,
      <<"site-packages">>,
      <<"python-scripts", "tool">>,
      <<"site-packages-extra", "x">>,
      <<"lib", "site-packages", "x">>,
      <<"bin", "tool">> }

\* the versions of the python package that published the PythonInfo
PythonVersions == {<<3, 9, 1>>, <<3, 10>>}

PathEntries ==
    [relative_path : RelativePaths,
     path_type : {"HardLink", "SoftLink", "Directory"},
     no_link : BOOLEAN,
     prefix_placeholder : {<<>>, <<"/old/prefix">>},
     file_mode : {"Binary", "Text"}]

\* what is at the destination path when link_file is called (`was` keeps
\* it) and what is at the source path in the cache
Targets ==
    { [parent |-> p, was |-> a, at |-> a, src |-> c] :
          p \in BOOLEAN, a \in {"missing", "file", "dir"},
          c \in {"file", "dir", "missing"} } \
    { [parent |-> FALSE, was |-> a, at |-> a, src |-> c] :
          a \in {"file", "dir"}, c \in {"file", "dir", "missing"} }

\* what the cache may hold at the path of an entry: link_file takes the
\* path_type from paths.json and does not look at the source path, which
\* can be a file, a directory or nothing whatever the path_type says
SourceKinds(entry) == {"file", "dir", "missing"}

\* install_package up to the loop over paths.paths
LinkInit ==
    /\ mode = "link"
    /\ AlgIdle
    /\ InsIdle
    /\ SolIdle
    /\ CacheIdle
    /\ RewIdle
    /\ GateIdle
    /\ OrdIdle
    /\ CompIdle
    /\ path_entry \in PathEntries
    /\ windows \in BOOLEAN
    /\ python_info \in
        {<<>>} \cup {<<PythonInfo(windows, from_version(v))>> : v \in PythonVersions}
    /\ destination_path = <<>>
    /\ target \in Targets
    /\ target.src \in SourceKinds(path_entry)
    /\ lpc = "spawn"
    /\ attempts = <<>>
    /\ lresult = "none"


\* install_package passes `!entry.no_link` as always_copy
always_copy == ~path_entry.no_link

LinkFrame == UNCHANGED <<mode, algVars, insVars, solVars, cacheVars, rewVars, gateVars, ordVars, compVars,
                         path_entry, windows, python_info>>

\* install_package: the destination path of the entry, before the link task
\* is spawned
DestinationPath ==
    /\ mode = "link"
    /\ lpc = "spawn"
    /\ destination_path' =
        IF python_info # <<>>
        THEN join(Prefix,
                  get_python_noarch_target_path(python_info[1],
                                                path_entry.relative_path))
        ELSE join(Prefix, path_entry.relative_path)
    /\ lpc' = "parent"
    /\ LinkFrame
    /\ UNCHANGED <<target, attempts, lresult>>

\* link_file: create_dir_all of the parent when it does not exist
EnsureParent ==
    /\ mode = "link"
    /\ lpc = "parent"
    /\ target' = [target EXCEPT !.parent = TRUE]
    /\ attempts' = IF target.parent THEN attempts
                   ELSE Append(attempts, "create_dir_all")
    /\ lpc' = "clobber"
    /\ LinkFrame
    /\ UNCHANGED <<destination_path, lresult>>

EnsureParentErr ==
    /\ mode = "link"
    /\ lpc = "parent"
    /\ ~target.parent
    /\ attempts' = Append(attempts, "create_dir_all")
    /\ lresult' = "could not create parent directory structure"
    /\ lpc' = "done"
    /\ LinkFrame
    /\ UNCHANGED <<destination_path, target>>

\* RemoveExisting without the removal
RemoveExistingKeep ==
    /\ mode = "link"
    /\ lpc = "clobber"
    /\ lpc' = "dispatch"
    /\ LinkFrame
    /\ UNCHANGED <<destination_path, target, attempts, lresult>>

\* link_file: remove_file when destination_path.is_file()
RemoveExisting ==
    /\ mode = "link"
    /\ lpc = "clobber"
    /\ target' = IF target.at = "file" THEN [target EXCEPT !.at = "missing"]
                 ELSE target
    /\ attempts' = IF target.at = "file" THEN Append(attempts, "remove_file")
                   ELSE attempts
    /\ lpc' = "dispatch"
    /\ LinkFrame
    /\ UNCHANGED <<destination_path, lresult>>

RemoveExistingErr ==
    /\ mode = "link"
    /\ lpc = "clobber"
    /\ target.at = "file"
    /\ attempts' = Append(attempts, "remove_file")
    /\ lresult' = "error removing existing file"
    /\ lpc' = "done"
    /\ LinkFrame
    /\ UNCHANGED <<destination_path, target>>

\* link_file: the branch on prefix_placeholder, path_type and always_copy
Dispatch ==
    /\ mode = "link"
    /\ lpc = "dispatch"
    /\ lpc' =
        IF path_entry.prefix_placeholder # <<>> THEN "copy_replace_prefix"
        ELSE IF path_entry.path_type = "HardLink" /\ always_copy
        THEN "hard_link_entry/hard_link"
        ELSE IF path_entry.path_type = "SoftLink" /\ always_copy
        THEN "soft_link_entry/symlink"
        ELSE "copy_entry/copy"
    /\ LinkFrame
    /\ UNCHANGED <<destination_path, target, attempts, lresult>>

\* the source path is a regular file
SourceIsFile == target.src = "file"

\* copy_replace_prefix_text or copy_replace_prefix_binary writes the file
RewriteOk ==
    /\ mode = "link"
    /\ lpc = "copy_replace_prefix"
    /\ SourceIsFile
    /\ target.at # "dir"
    /\ target' = [target EXCEPT !.at =
                     IF path_entry.file_mode = "Text" THEN "text" ELSE "binary"]
    /\ attempts' = Append(attempts, "create")
    /\ lresult' = "Ok(Some(digest))"
    /\ lpc' = "done"
    /\ LinkFrame
    /\ UNCHANGED destination_path

\* an error of the rewriting, in the order of its calls: metadata of the
\* cached file (Binary only; it fails for a missing file), File::open (it
\* is reached with Binary when metadata succeeded), Mmap::map (it always
\* fails for a directory, which File::open opens), File::create of the
\* destination,
\* write_all to the file that File::create made or truncated, and
\* set_permissions (Binary only) when the whole file is written
RewriteErr ==
    /\ mode = "link"
    /\ lpc = "copy_replace_prefix"
    /\ \E e \in {"unable to determine permissions of cached file",
                 "unable to open file from cache",
                 "unable to memory map file from cache",
                 "unable to open destination file for writing",
                 "failed to write to destination",
                 "unable to assign same permissions as source file"} :
        /\ e = "unable to determine permissions of cached file" =>
               path_entry.file_mode = "Binary"
        /\ e = "unable to open file from cache" =>
               (path_entry.file_mode = "Binary" => target.src # "missing")
        /\ e = "unable to memory map file from cache" => target.src # "missing"
        /\ e = "unable to open destination file for writing" => SourceIsFile
        /\ e = "failed to write to destination" =>
               SourceIsFile /\ target.at # "dir"
        /\ e = "unable to assign same permissions as source file" =>
               /\ path_entry.file_mode = "Binary"
               /\ SourceIsFile
               /\ target.at # "dir"
        /\ lresult' = e
        /\ attempts' = IF e \in {"unable to open destination file for writing",
                                 "failed to write to destination",
                                 "unable to assign same permissions as source file"}
                       THEN Append(attempts, "create") ELSE attempts
        /\ target' =
             IF e = "failed to write to destination"
             THEN [target EXCEPT !.at = "partial"]
             ELSE IF e = "unable to assign same permissions as source file"
             THEN [target EXCEPT !.at = "binary"]
             ELSE target
    /\ lpc' = "done"
    /\ LinkFrame
    /\ UNCHANGED destination_path

\* copy_replace_prefix_binary panics: after an occurrence of the old prefix
\* the bytes left are a suffix of the file, and the search for the end of
\* the string of a later occurrence reads them up to the length of the whole
\* file (`end < source.len()`), past the end of what is left.  The
\* destination was created and holds what was written before.
RewritePanic ==
    /\ mode = "link"
    /\ lpc = "copy_replace_prefix"
    /\ path_entry.file_mode = "Binary"
    /\ SourceIsFile
    /\ target.at # "dir"
    /\ target' = [target EXCEPT !.at = "partial"]
    /\ attempts' = Append(attempts, "create")
    /\ lresult' = "panic"
    /\ lpc' = "done"
    /\ LinkFrame
    /\ UNCHANGED destination_path

\* std::fs::hard_link: the destination must not exist
HardLinkOk ==
    /\ mode = "link"
    /\ lpc = "hard_link_entry/hard_link"
    /\ SourceIsFile
    /\ target.at = "missing"
    /\ target' = [target EXCEPT !.at = "hard_link"]
    /\ attempts' = Append(attempts, "hard_link")
    /\ lresult' = "Ok(None)"
    /\ lpc' = "done"
    /\ LinkFrame
    /\ UNCHANGED destination_path

\* HardLinkErr falling back to the copy at once
HardLinkErrToCopy ==
    /\ mode = "link"
    /\ lpc = "hard_link_entry/hard_link"
    /\ attempts' = Append(attempts, "hard_link")
    /\ lpc' = "hard_link_entry/copy"
    /\ LinkFrame
    /\ UNCHANGED <<destination_path, target, lresult>>

HardLinkErr ==
    /\ mode = "link"
    /\ lpc = "hard_link_entry/hard_link"
    /\ attempts' = Append(attempts, "hard_link")
    /\ lpc' = "hard_link_entry/symlink"
    /\ LinkFrame
    /\ UNCHANGED <<destination_path, target, lresult>>

\* symlink: the destination must not exist
SymlinkOk ==
    /\ mode = "link"
    /\ lpc \in {"hard_link_entry/symlink", "soft_link_entry/symlink"}
    /\ target.at = "missing"
    /\ target' = [target EXCEPT !.at = "symlink"]
    /\ attempts' = Append(attempts, "symlink")
    /\ lresult' = "Ok(None)"
    /\ lpc' = "done"
    /\ LinkFrame
    /\ UNCHANGED destination_path

SymlinkErr ==
    /\ mode = "link"
    /\ lpc \in {"hard_link_entry/symlink", "soft_link_entry/symlink"}
    /\ attempts' = Append(attempts, "symlink")
    /\ lpc' = IF lpc = "hard_link_entry/symlink" THEN "hard_link_entry/copy"
              ELSE "soft_link_entry/copy"
    /\ LinkFrame
    /\ UNCHANGED <<destination_path, target, lresult>>

\* std::fs::copy: the source is a file and the destination is no directory
CopyOk ==
    /\ mode = "link"
    /\ lpc \in {"hard_link_entry/copy", "soft_link_entry/copy", "copy_entry/copy"}
    /\ SourceIsFile
    /\ target.at # "dir"
    /\ target' = [target EXCEPT !.at = "copy"]
    /\ attempts' = Append(attempts, "copy")
    /\ lresult' = "Ok(None)"
    /\ lpc' = "done"
    /\ LinkFrame
    /\ UNCHANGED destination_path

\* std::fs::copy fails: before it has created the destination, or, for a
\* source that is a file, part-way through the bytes, and then the file it
\* created at the destination stays
CopyErr ==
    /\ mode = "link"
    /\ lpc \in {"hard_link_entry/copy", "soft_link_entry/copy", "copy_entry/copy"}
    /\ attempts' = Append(attempts, "copy")
    /\ lresult' = IF lpc = "hard_link_entry/copy" THEN "error hard linking entry"
                  ELSE IF lpc = "soft_link_entry/copy" THEN "error soft linking entry"
                  ELSE "error copying entry"
    /\ \/ UNCHANGED target
       \/ /\ SourceIsFile
          /\ target.at # "dir"
          /\ target' = [target EXCEPT !.at = "partial"]
    /\ lpc' = "done"
    /\ LinkFrame
    /\ UNCHANGED destination_path

LinkNext ==
    \/ DestinationPath
    \/ EnsureParent
    \/ EnsureParentErr
    \/ RemoveExisting
    \/ RemoveExistingErr
    \/ Dispatch
    \/ RewriteOk
    \/ RewriteErr
    \/ RewritePanic
    \/ HardLinkOk
    \/ HardLinkErr
    \/ SymlinkOk
    \/ SymlinkErr
    \/ CopyOk
    \/ CopyErr

SpecLink == LinkInit /\ [][LinkNext]_vars

(***************************************************************************)
(* Claims about linking one entry (checked under SpecLink).                *)
(***************************************************************************)
LinkReturnedOk == lpc = "done" /\ lresult \in {"Ok(None)", "Ok(Some(digest))"}

IsLinkCall(c) == c \in {"hard_link", "symlink", "copy"}

\* the calls that put something at the destination path
IsWriteCall(c) == c \in {"hard_link", "symlink", "copy", "create"}

LinkCalls == SelectSeq(attempts, IsLinkCall)

IsPrefix(s, t) == Len(s) <= Len(t) /\ s = SubSeq(t, 1, Len(s))

\* C16: an entry with no_link = true and no prefix placeholder is skipped:
\* when link_file has returned Ok nothing was created at its destination.
C16_NoLinkSkipped ==
    (mode = "link" /\ path_entry.no_link
        /\ path_entry.prefix_placeholder = <<>> /\ LinkReturnedOk) =>
        /\ target.at = target.was
        /\ LinkCalls = <<>>

\* C17: a hard-link entry tries hard link, then symlink, then copy, and a
\* soft-link entry symlink, then copy; each attempt is made only when the
\* one before failed, the first success ends the operation with Ok, and an
\* error is returned only when the copy failed too.
C17_FallbackChain ==
    (mode = "link" /\ path_entry.prefix_placeholder = <<>> /\ always_copy
        /\ path_entry.path_type \in {"HardLink", "SoftLink"}) =>
        /\ IsPrefix(LinkCalls,
                    IF path_entry.path_type = "HardLink"
                    THEN <<"hard_link", "symlink", "copy">>
                    ELSE <<"symlink", "copy">>)
        /\ target.at \in {"hard_link", "symlink", "copy"} =>
               /\ lpc = "done"
               /\ lresult = "Ok(None)"
               /\ target.at = LinkCalls[Len(LinkCalls)]
        /\ (lpc = "done" /\ LinkCalls # <<>> /\ lresult # "Ok(None)") =>
               /\ LinkCalls[Len(LinkCalls)] = "copy"
               /\ target.at \in {target.was, "missing", "partial"}
               /\ lresult = IF path_entry.path_type = "HardLink"
                            THEN "error hard linking entry"
                            ELSE "error soft linking entry"
        /\ (lpc = "done" /\ lresult = "Ok(None)") =>
               /\ LinkCalls # <<>>
               /\ target.at = LinkCalls[Len(LinkCalls)]

\* a hard-link entry could be neither hard linked nor symlinked and was copied
C17_Witness ==
    /\ mode = "link"
    /\ path_entry.path_type = "HardLink"
    /\ lpc = "done"
    /\ lresult = "Ok(None)"
    /\ LinkCalls = <<"hard_link", "symlink", "copy">>
    /\ target.at = "copy"

\* C18: a regular file at the destination is removed before the entry is
\* linked, copied or rewritten; when the removal fails link_file returns
\* that error and writes nothing; a directory at the destination is never
\* removed.
C18_Clobber ==
    mode = "link" =>
        /\ target.was = "file" =>
               \A i \in 1..Len(attempts) :
                   IsWriteCall(attempts[i]) =>
                       \E j \in 1..(i - 1) : attempts[j] = "remove_file"
        /\ (\E j \in 1..Len(attempts) : attempts[j] = "remove_file")
               /\ target.at = "file" =>
               /\ lpc = "done"
               /\ lresult = "error removing existing file"
               /\ \A i \in 1..Len(attempts) : ~IsWriteCall(attempts[i])
        /\ target.was = "dir" =>
               /\ target.at = "dir"
               /\ \A j \in 1..Len(attempts) : attempts[j] # "remove_file"

\* a file was at the destination, was removed, and the entry was hard linked
C18_Witness ==
    /\ mode = "link"
    /\ target.was = "file"
    /\ attempts = <<"remove_file", "hard_link">>
    /\ target.at = "hard_link"
    /\ lresult = "Ok(None)"

\* the destination the claim names for the entry
ClaimedDestination ==
    IF python_info = <<>> THEN Prefix \o path_entry.relative_path
    ELSE IF Head(path_entry.relative_path) = "site-packages"
    THEN Prefix
         \o (IF windows THEN <<"Lib", "site-packages">>
             ELSE <<"lib",
                    "python" \o ToString(python_info[1].short_version[1]) \o "."
                        \o ToString(python_info[1].short_version[2]),
                    "site-packages">>)
         \o Tail(path_entry.relative_path)
    ELSE IF Head(path_entry.relative_path) = "python-scripts"
    THEN Prefix \o (IF windows THEN <<"Scripts">> ELSE <<"bin">>)
         \o Tail(path_entry.relative_path)
    ELSE Prefix \o path_entry.relative_path

\* C19: for a noarch python package and the PythonInfo of version M.N an
\* entry under site-packages/ goes to lib/pythonM.N/site-packages (on
\* Windows Lib/site-packages) joined with the rest of its path, an entry
\* under python-scripts/ to bin (on Windows Scripts) joined with the rest,
\* any other entry to its relative path; for every other package the
\* destination is the prefix joined with the relative path.
C19_NoarchDestination ==
    (mode = "link" /\ lpc # "spawn") => destination_path = ClaimedDestination

\* an entry under site-packages/ of a noarch python package was linked into
\* the site-packages directory of python 3.10
C19_Witness ==
    /\ mode = "link"
    /\ python_info # <<>>
    /\ path_entry.relative_path = <<"site-packages", "pkg", "mod.py">>
    /\ LinkReturnedOk
    /\ destination_path =
        <<"env", "lib", "python3.10", "site-packages", "pkg", "mod.py">>

(***************************************************************************)
(* Prefix rewriting: copy_replace_prefix_text and                          *)
(* copy_replace_prefix_binary (install/link.rs).  A file is the sequence   *)
(* of its bytes.  The placeholder is not empty and the cached file has at  *)
(* least one byte.                                                         *)
(***************************************************************************)
\* the largest length of a cached file
MaxSource == 4

\* twoway::find_bytes: the 0-based index of the first occurrence, <<>> for
\* None
find_bytes(haystack, needle) ==
    IF \E i \in 0..(Len(haystack) - Len(needle)) :
           SubSeq(haystack, i + 1, i + Len(needle)) = needle
    THEN <<CHOOSE i \in 0..(Len(haystack) - Len(needle)) :
               /\ SubSeq(haystack, i + 1, i + Len(needle)) = needle
               /\ \A j \in 0..(i - 1) :
                      SubSeq(haystack, j + 1, j + Len(needle)) # needle>>
    ELSE <<>>

\* source_bytes[from..] of a slice, from 0-based
SliceFrom(source_bytes, from) == SubSeq(source_bytes, from + 1, Len(source_bytes))

\* source_bytes[from..to] of a slice, 0-based and to exclusive
Slice(source_bytes, from, to) == SubSeq(source_bytes, from + 1, to)

\* the loop of copy_replace_prefix_text leaving after the first occurrence
TextLoopOnce(source_bytes, old_prefix, new_prefix, out) ==
    IF find_bytes(source_bytes, old_prefix) # <<>>
    THEN out \o Slice(source_bytes, 0, find_bytes(source_bytes, old_prefix)[1])
             \o new_prefix
             \o SliceFrom(source_bytes,
                    find_bytes(source_bytes, old_prefix)[1] + Len(old_prefix))
    ELSE out \o source_bytes

\* the loop of copy_replace_prefix_text: out is what was written so far
RECURSIVE TextLoop(_, _, _, _)
TextLoop(source_bytes, old_prefix, new_prefix, out) ==
    IF find_bytes(source_bytes, old_prefix) # <<>>
    THEN TextLoop(SliceFrom(source_bytes,
                      find_bytes(source_bytes, old_prefix)[1] + Len(old_prefix)),
                  old_prefix, new_prefix,
                  out \o Slice(source_bytes, 0, find_bytes(source_bytes, old_prefix)[1])
                      \o new_prefix)
    ELSE out \o source_bytes

copy_replace_prefix_text(source_bytes, old_prefix, new_prefix) ==
    [status |-> "Ok", bytes |-> TextLoop(source_bytes, old_prefix, new_prefix, <<>>)]

\* the inner loop of copy_replace_prefix_binary, `while end < source.len()
\* && source_bytes[end] != 0`: the end it stops at, or -1 when the index is
\* outside the slice and the access panics
RECURSIVE FindEnd(_, _, _)
FindEnd(source_len, source_bytes, end) ==
    IF end < source_len
    THEN IF end >= Len(source_bytes) THEN -1
         ELSE IF source_bytes[end + 1] # 0
         THEN FindEnd(source_len, source_bytes, end + 1)
         ELSE end
    ELSE end

\* vec![0u8; padding_len]
Padding(old_prefix, new_prefix) ==
    [i \in 1..(IF Len(old_prefix) > Len(new_prefix)
               THEN Len(old_prefix) - Len(new_prefix) ELSE 0) |-> 0]

\* the loop of copy_replace_prefix_binary: out is what was written so far
RECURSIVE BinaryLoop(_, _, _, _, _)
BinaryLoop(source_len, source_bytes, old_prefix, new_prefix, out) ==
    IF find_bytes(source_bytes, old_prefix) = <<>>
    THEN [status |-> "Ok", bytes |-> out \o source_bytes]
    ELSE LET index == find_bytes(source_bytes, old_prefix)[1]
             end == FindEnd(source_len, source_bytes, index + Len(old_prefix))
         IN  IF end = -1 THEN [status |-> "panic", bytes |-> out]
             ELSE BinaryLoop(source_len, SliceFrom(source_bytes, end),
                      old_prefix, new_prefix,
                      out \o Slice(source_bytes, 0, index) \o new_prefix
                          \o Slice(source_bytes, index + Len(old_prefix), end)
                          \o Padding(old_prefix, new_prefix))

copy_replace_prefix_binary(source_bytes, old_prefix, new_prefix) ==
    BinaryLoop(Len(source_bytes), source_bytes, old_prefix, new_prefix, <<>>)

\* the bytes of the files: NUL, `/` and `x`
Bytes == {0, 47, 120}

RECURSIVE SeqsUpTo(_)
SeqsUpTo(n) ==
    IF n = 0 THEN {<<>>}
    ELSE SeqsUpTo(n - 1) \cup
         {Append(s, b) : s \in {q \in SeqsUpTo(n - 1) : Len(q) = n - 1}, b \in Bytes}

Sources == SeqsUpTo(MaxSource) \ {<<>>}
Placeholders == {<<47>>, <<47, 47>>, <<47, 120>>}
NewPrefixes == {<<47>>, <<120>>, <<47, 120, 47>>, <<120, 120>>}

\* link_file was called for an entry with a prefix placeholder
RewInit ==
    /\ mode = "rewrite"
    /\ AlgIdle
    /\ InsIdle
    /\ SolIdle
    /\ CacheIdle
    /\ LinkIdle
    /\ GateIdle
    /\ OrdIdle
    /\ CompIdle
    /\ source \in Sources
    /\ prefix_placeholder \in Placeholders
    /\ prefix \in NewPrefixes
    /\ file_mode \in {"Text", "Binary"}
    /\ written = [status |-> "pending", bytes |-> <<>>]

RewFrame == UNCHANGED <<mode, algVars, insVars, solVars, cacheVars, linkVars, gateVars, ordVars, compVars,
                        source, prefix_placeholder, prefix, file_mode>>

\* link_file: FileMode::Text
RewriteText ==
    /\ mode = "rewrite"
    /\ file_mode = "Text"
    /\ written.status = "pending"
    /\ written' = copy_replace_prefix_text(source, prefix_placeholder, prefix)
    /\ RewFrame

\* link_file: FileMode::Binary
RewriteBinary ==
    /\ mode = "rewrite"
    /\ file_mode = "Binary"
    /\ written.status = "pending"
    /\ written' = copy_replace_prefix_binary(source, prefix_placeholder, prefix)
    /\ RewFrame

RewNext ==
    \/ RewriteText
    \/ RewriteBinary

SpecRewrite == RewInit /\ [][RewNext]_vars

\* C36: linking a PathEntry of path type directory with no prefix
\* placeholder and no_link false succeeds and leaves a directory at the
\* destination path (the parent directory could be created and nothing had
\* to be removed in vain).
C36_DirectoryCreated ==
    (/\ mode = "link"
     /\ lpc = "done"
     /\ path_entry.path_type = "Directory"
     /\ path_entry.prefix_placeholder = <<>>
     /\ ~path_entry.no_link
     /\ lresult \notin {"could not create parent directory structure",
                        "error removing existing file"}) =>
        /\ lresult = "Ok(None)"
        /\ target.at = "dir"

(***************************************************************************)
(* Claims about the prefix rewriting (checked under SpecRewrite).          *)
(***************************************************************************)
\* the source read from position i on, 1-based: an occurrence of the
\* placeholder at i is replaced and skipped, any other byte is kept
RECURSIVE ReplaceFrom(_, _, _, _)
ReplaceFrom(bytes, old, new, i) ==
    IF i > Len(bytes) THEN <<>>
    ELSE IF i + Len(old) - 1 <= Len(bytes) /\ SubSeq(bytes, i, i + Len(old) - 1) = old
    THEN new \o ReplaceFrom(bytes, old, new, i + Len(old))
    ELSE <<bytes[i]>> \o ReplaceFrom(bytes, old, new, i + 1)

\* C20: text-mode rewriting writes the source bytes with every occurrence
\* of the placeholder, taken left to right without overlap, replaced by the
\* new prefix, and every other byte unchanged and in order.
C20_TextReplacesEvery ==
    (mode = "rewrite" /\ file_mode = "Text" /\ written.status # "pending") =>
        /\ written.status = "Ok"
        /\ written.bytes = ReplaceFrom(source, prefix_placeholder, prefix, 1)

\* a text file with two occurrences of the placeholder, each followed by
\* another byte, was rewritten
C20_Witness ==
    /\ mode = "rewrite"
    /\ file_mode = "Text"
    /\ source = <<47, 120, 47, 120>>
    /\ prefix_placeholder = <<47>>
    /\ prefix = <<120, 120>>
    /\ written = [status |-> "Ok", bytes |-> <<120, 120, 120, 120, 120, 120>>]


\* C21: binary rewriting with a new prefix no longer than the placeholder
\* writes as many bytes as the source has, for every source, whatever the
\* number and the positions of the occurrences of the placeholder.
C21_BinaryLengthPreserved ==
    (mode = "rewrite" /\ file_mode = "Binary" /\ written.status # "pending"
        /\ Len(prefix) <= Len(prefix_placeholder)) =>
        /\ written.status = "Ok"
        /\ Len(written.bytes) = Len(source)

\* the end of the C-string around position end of the whole file, 0-based:
\* the position of its NUL byte, or the length of the file when there is
\* none
RECURSIVE StringEnd(_, _)
StringEnd(bytes, end) ==
    IF end < Len(bytes) /\ bytes[end + 1] # 0 THEN StringEnd(bytes, end + 1)
    ELSE end

\* the file read from position i on, 0-based: every occurrence of the
\* placeholder is replaced, the rest of its C-string is kept and the padding
\* is written where that string ends, at its NUL byte or at the end of the
\* file
RECURSIVE RewrittenFrom(_, _, _, _)
RewrittenFrom(bytes, old, new, i) ==
    LET found == find_bytes(SliceFrom(bytes, i), old)
    IN  IF found = <<>> THEN SliceFrom(bytes, i)
        ELSE LET index == i + found[1]
                 end == StringEnd(bytes, index + Len(old))
             IN  Slice(bytes, i, index) \o new
                     \o Slice(bytes, index + Len(old), end)
                     \o Padding(old, new)
                     \o RewrittenFrom(bytes, old, new, end)

\* C37: binary rewriting takes the end of the file as the end of a C-string
\* without a NUL byte: for every source, also when the second or a later
\* occurrence of the placeholder lies in a last string without a NUL byte,
\* the rewriting returns Ok and what follows the placeholder up to the end
\* of the file is written.
C37_EndOfFileTerminates ==
    (mode = "rewrite" /\ file_mode = "Binary" /\ written.status # "pending") =>
        /\ written.status = "Ok"
        /\ written.bytes = RewrittenFrom(source, prefix_placeholder, prefix, 0)

(***************************************************************************)
(* The Gate (gate.rs): a tokio watch channel of a bool behind a Mutex.     *)
(* Each task makes a short program of open() and wait() calls.  The        *)
(* channel carries a version that send increments; a Receiver keeps the    *)
(* version it has seen, a clone of a Receiver starts with the version of   *)
(* the Receiver it was cloned from, and changed() returns when the version *)
(* of the channel differs from the version seen.                           *)
(***************************************************************************)
GateTasks == {1, 2, 3}

\* what a task calls, in order
GatePrograms ==
    { <<"open">>, <<"wait">>, <<"open", "open">>, <<"open", "wait">>,
      <<"wait", "open">> }

\* Gate::new: watch::channel(false); the field `wait` is the first Receiver
\* and is never updated
GateInit ==
    /\ mode = "gate"
    /\ AlgIdle
    /\ InsIdle
    /\ SolIdle
    /\ CacheIdle
    /\ LinkIdle
    /\ RewIdle
    /\ OrdIdle
    /\ CompIdle
    /\ gate = FALSE
    /\ gversion = 0
    /\ glock = 0
    /\ gprog \in [GateTasks -> GatePrograms]
    /\ gpc = [t \in GateTasks |-> "idle"]
    /\ gseen = [t \in GateTasks |-> 0]
    /\ greturns = [t \in GateTasks |-> <<>>]

GateFrame == UNCHANGED <<mode, algVars, insVars, solVars, cacheVars, linkVars, rewVars,
                         ordVars, compVars>>

\* the version of the field `wait`, which no call updates
WaitFieldVersion == 0

\* Receiver::clone taking the version of the channel instead
CloneAtCurrent == gversion

\* self.wait.clone(): the clone has the version of the field
CloneWait == WaitFieldVersion

\* a task starts its next call
Call(t) ==
    /\ mode = "gate"
    /\ gpc[t] = "idle"
    /\ gprog[t] # <<>>
    /\ gpc' = [gpc EXCEPT ![t] = Head(gprog[t])]
    /\ gprog' = [gprog EXCEPT ![t] = Tail(@)]
    /\ GateFrame
    /\ UNCHANGED <<gate, gversion, glock, gseen, greturns>>

\* Gate::open without the Mutex
OpenLockFree(t) ==
    /\ mode = "gate"
    /\ gpc[t] = "open"
    /\ gpc' = [gpc EXCEPT ![t] = "locked"]
    /\ GateFrame
    /\ UNCHANGED <<gate, gversion, glock, gprog, gseen, greturns>>

\* Gate::open: self.state.lock()
OpenLock(t) ==
    /\ mode = "gate"
    /\ gpc[t] = "open"
    /\ glock = 0
    /\ glock' = t
    /\ gpc' = [gpc EXCEPT ![t] = "locked"]
    /\ GateFrame
    /\ UNCHANGED <<gate, gversion, gprog, gseen, greturns>>

\* Gate::open: the test of *state.waker.borrow()
OpenTest(t) ==
    /\ mode = "gate"
    /\ gpc[t] = "locked"
    /\ IF gate
       THEN /\ greturns' = [greturns EXCEPT ![t] = Append(@, "false")]
            /\ gpc' = [gpc EXCEPT ![t] = "idle"]
            /\ glock' = IF glock = t THEN 0 ELSE glock
       ELSE /\ gpc' = [gpc EXCEPT ![t] = "send"]
            /\ UNCHANGED <<greturns, glock>>
    /\ GateFrame
    /\ UNCHANGED <<gate, gversion, gprog, gseen>>

\* Gate::open: waker.send(true), return true, and the guard is dropped
OpenSend(t) ==
    /\ mode = "gate"
    /\ gpc[t] = "send"
    /\ gate' = TRUE
    /\ gversion' = gversion + 1
    /\ greturns' = [greturns EXCEPT ![t] = Append(@, "true")]
    /\ gpc' = [gpc EXCEPT ![t] = "idle"]
    /\ glock' = IF glock = t THEN 0 ELSE glock
    /\ GateFrame
    /\ UNCHANGED <<gprog, gseen>>

\* Gate::wait: let mut waiter = self.wait.clone()
WaitClone(t) ==
    /\ mode = "gate"
    /\ gpc[t] = "wait"
    /\ gseen' = [gseen EXCEPT ![t] = CloneWait]
    /\ gpc' = [gpc EXCEPT ![t] = "changed"]
    /\ GateFrame
    /\ UNCHANGED <<gate, gversion, glock, gprog, greturns>>

\* Gate::wait: waiter.changed() returns, the version is marked seen, and the
\* value is tested; wait returns when it is true
WaitChanged(t) ==
    /\ mode = "gate"
    /\ gpc[t] = "changed"
    /\ gseen[t] # gversion
    /\ gseen' = [gseen EXCEPT ![t] = gversion]
    /\ IF gate
       THEN /\ gpc' = [gpc EXCEPT ![t] = "idle"]
            /\ greturns' = [greturns EXCEPT ![t] = Append(@, "waited")]
       ELSE UNCHANGED <<gpc, greturns>>
    /\ GateFrame
    /\ UNCHANGED <<gate, gversion, glock, gprog>>

GateNext ==
    \/ \E t \in GateTasks : Call(t)
    \/ \E t \in GateTasks : OpenLock(t)
    \/ \E t \in GateTasks : OpenTest(t)
    \/ \E t \in GateTasks : OpenSend(t)
    \/ \E t \in GateTasks : WaitClone(t)
    \/ \E t \in GateTasks : WaitChanged(t)

SpecGate == GateInit /\ [][GateNext]_vars

\* the runtime polls a task that can take a step
SpecGateFair == SpecGate /\ \A t \in GateTasks :
    /\ WF_vars(Call(t))
    /\ WF_vars(OpenLock(t))
    /\ WF_vars(OpenTest(t))
    /\ WF_vars(OpenSend(t))
    /\ WF_vars(WaitClone(t))
    /\ WF_vars(WaitChanged(t))

\* the number of open() calls of task t that returned v
RECURSIVE CountOf(_, _)
CountOf(s, v) ==
    IF s = <<>> THEN 0
    ELSE (IF Head(s) = v THEN 1 ELSE 0) + CountOf(Tail(s), v)

RECURSIVE SumTrue(_)
SumTrue(ts) ==
    IF ts = {} THEN 0
    ELSE LET t == CHOOSE u \in ts : TRUE
         IN  CountOf(greturns[t], "true") + SumTrue(ts \ {t})

\* an open() call has been started or has returned
OpenCalled == \E t \in GateTasks : gpc[t] \in {"open", "locked", "send"} \/
                  CountOf(greturns[t], "true") + CountOf(greturns[t], "false") > 0

\* no open() call is still to be made or still running
OpensFinished ==
    \A t \in GateTasks :
        /\ gpc[t] \notin {"open", "locked", "send"}
        /\ \A i \in 1..Len(gprog[t]) : gprog[t][i] # "open"

\* C24: a Gate starts closed; an open() call returns true exactly when the
\* gate was closed at the moment the call examined it under the lock, so at
\* most one of all the calls, sequential or concurrent, returns true, exactly
\* one once they have all returned, and an open gate stays open.
C24_OpenOnce ==
    /\ (mode = "gate" => ~gate)
    /\ [](mode = "gate" =>
            /\ SumTrue(GateTasks) <= 1
            /\ (OpenCalled /\ OpensFinished) => SumTrue(GateTasks) = 1
            /\ gate <=> SumTrue(GateTasks) = 1)
    /\ [][mode = "gate" =>
            /\ gate => gate'
            /\ \A t \in GateTasks :
                 /\ (Len(greturns'[t]) > Len(greturns[t])
                       /\ greturns'[t][Len(greturns'[t])] = "true") =>
                        (~gate /\ gate')
                 /\ (Len(greturns'[t]) > Len(greturns[t])
                       /\ greturns'[t][Len(greturns'[t])] = "false") =>
                        gate]_vars

\* three open() calls of two tasks have returned: the first call of one
\* task returned true, its second call and the call of the other task false
C24_Witness ==
    /\ mode = "gate"
    /\ gate
    /\ \E t, u \in GateTasks :
         /\ t # u
         /\ greturns[t] = <<"true", "false">>
         /\ greturns[u] = <<"false">>

\* task t is inside Gate::wait
InWait(t) == gpc[t] \in {"wait", "changed"}

\* C25: a wait() call returns only when the gate is open, and once the gate
\* is open every task inside wait(), one that entered it after the open()
\* included, eventually returns from it.
C25_WaitersContinue ==
    /\ [][mode = "gate" =>
            \A t \in GateTasks :
                (InWait(t) /\ ~InWait(t)') => (gate /\ gpc'[t] = "idle")]_vars
    /\ [](mode = "gate" => \A t \in GateTasks : (InWait(t) /\ ~gate) =>
              CountOf(greturns[t], "waited") = 0)
    /\ \A t \in GateTasks :
          (mode = "gate" /\ gate /\ InWait(t)) ~> (gpc[t] = "idle")

\* one task opened the gate and then returned from wait(), and another task
\* returned from wait() and then had its open() answered false
C25_Witness ==
    /\ mode = "gate"
    /\ \E t, u \in GateTasks :
         /\ greturns[t] = <<"true", "waited">>
         /\ greturns[u] = <<"waited", "false">>

(***************************************************************************)
(* The ordering calls of the index: compare_variants, variants_order and   *)
(* find_highest_version on an index of one source whose set of p has been  *)
(* looked up; that of q is looked up by the calls.  The variants of p tie  *)
(* or differ in tracked features, version, build number, dependencies on   *)
(* q and timestamp.                                                        *)
(***************************************************************************)
\* a record of p with the fields the comparison reads
OrdRecord(version, build_number, track_features, timestamp, depends) ==
    [MkRecord("p", version, "0") EXCEPT
        !.build_number = build_number, !.track_features = track_features,
        !.timestamp = timestamp, !.depends = depends]

GeSpec(name, v) == MkSpec(name, [op |-> ">=", v |-> v], "*")

OrdRecords ==
    {OrdRecord(1, 0, FALSE, 0, <<>>),
     OrdRecord(2, 0, FALSE, 0, <<>>),
     OrdRecord(1, 1, FALSE, 0, <<>>),
     OrdRecord(1, 0, TRUE, 0, <<>>),
     OrdRecord(1, 0, FALSE, 1, <<>>),
     OrdRecord(1, 0, FALSE, 1, <<GeSpec("q", 1)>>),
     OrdRecord(1, 0, FALSE, 0, <<EqSpec("q", 1)>>),
     OrdRecord(1, 0, FALSE, 0, <<GeSpec("q", 1), EqSpec("q", 1)>>),
     OrdRecord(1, 0, FALSE, 0, <<EqSpec("q", 1), Unparsable>>)}

\* the variants of p: up to MaxVariants records
OrdVariantLists == UNION {[1..n -> OrdRecords] : n \in 1..MaxVariants}

\* a record of q, with or without tracked features
QRecord(version, track_features) ==
    [MkRecord("q", version, "0") EXCEPT !.track_features = track_features]

OrdQLists ==
    {<<QRecord(2, FALSE), QRecord(1, FALSE)>>,
     <<QRecord(2, TRUE), QRecord(1, FALSE)>>}

\* the specs find_highest_version is asked about
OrdSpecs ==
    {AnySpec("q"), EqSpec("q", 1), EqSpec("q", 2), GeSpec("q", 3),
     MkSpec(NoneV, NoVersion, "*")}

OrdInit ==
    /\ mode = "order"
    /\ AlgIdle
    /\ InsIdle
    /\ CacheIdle
    /\ LinkIdle
    /\ RewIdle
    /\ GateIdle
    /\ CompIdle
    /\ \E ps \in OrdVariantLists, qs \in OrdQLists :
          repo_datas = <<[channel |-> "channel-1",
                          repodata |-> [n \in {"p", "q"} |->
                                           IF n = "p" THEN ps ELSE qs]]>>
    /\ cache = [n \in {"p"} |-> PackageVariants(n, RepoVariants(n, 1))]
    /\ again = FALSE
    /\ offers = <<>>
    /\ specs = <<>>
    /\ sphase = "index"
    /\ stack = <<>>
    /\ tried = <<>>
    /\ outcome = NoneV
    /\ result = {}
    /\ first = <<>>
    /\ ocall = [op |-> "none", args |-> <<>>, ret |-> <<>>]

OrdFrame ==
    UNCHANGED <<mode, algVars, insVars, repo_datas, again, offers, specs, sphase, stack,
                tried, outcome, result, first, cacheVars, linkVars, rewVars,
                gateVars, compVars>>

\* Index::compare_variants for two variants of p
CompareVariants == \E a_idx, b_idx \in 1..Len(package_variants("p").variants) :
    /\ mode = "order"
    /\ ocall' = [op |-> "compare_variants", args |-> <<a_idx, b_idx>>,
                 ret |-> <<compare_variants(package_variants("p"), a_idx, b_idx)>>]
    /\ cache' = Insert(CacheAfter(CompareLookups(package_variants("p"),
                                                 a_idx, b_idx)),
                       "p", AfterCompare(package_variants("p"), a_idx, b_idx))
    /\ OrdFrame

\* Index::variants_order for p
VariantsOrder == \E sorted \in OrderOutcomes(package_variants("p")) :
    /\ mode = "order"
    /\ ocall' = [op |-> "variants_order", args |-> <<"p">>,
                 ret |-> <<variants_order(package_variants("p"), sorted)>>]
    /\ cache' = Insert(CacheAfter(VariantsOrderLookups(package_variants("p"))),
                       "p", AfterVariantsOrder(package_variants("p"), sorted))
    /\ OrdFrame

\* Option<(Version, bool)>: <<>> is None
HighestOption(h) ==
    IF h.some THEN <<[version |-> h.version, tracked |-> h.tracked]>> ELSE <<>>

\* Index::find_highest_version
FindHighestVersion == \E match_spec \in OrdSpecs :
    /\ mode = "order"
    /\ ocall' = [op |-> "find_highest_version", args |-> <<match_spec>>,
                 ret |-> HighestOption(find_highest_version(match_spec))]
    /\ cache' = CacheAfter(IF match_spec.name = NoneV THEN {}
                           ELSE {match_spec.name})
    /\ OrdFrame

OrdNext ==
    \/ CompareVariants
    \/ VariantsOrder
    \/ FindHighestVersion

SpecOrder == OrdInit /\ [][OrdNext]_vars

(***************************************************************************)
(* Claims about the ordering calls (checked under SpecOrder).              *)
(***************************************************************************)
\* order holds every index of 1..n exactly once
IsPermutation(order, n) ==
    /\ Len(order) = n
    /\ \A i \in 1..n : Cardinality({k \in 1..Len(order) : order[k] = i}) = 1

\* C32: the solver order of a variant set holds every variant index exactly
\* once; it is computed when first requested, and every later request gets
\* that same order.
C32_OrderIsPermutation ==
    /\ [](mode = "order" =>
            /\ \A n \in DOMAIN cache :
                   cache[n].solver_order # <<>> =>
                       IsPermutation(cache[n].solver_order[1],
                                     Len(cache[n].variants))
            /\ ocall.op = "variants_order" =>
                   ocall.ret = cache[ocall.args[1]].solver_order)
    /\ [][mode = "order" =>
            \A n \in DOMAIN cache :
                cache[n].solver_order # <<>> =>
                    /\ n \in DOMAIN cache'
                    /\ cache'[n].solver_order = cache[n].solver_order]_vars

\* the order of three variants was requested; the first and the third
\* compare Equal, the second does not, and the order does not begin with
\* the first
C32_Witness ==
    /\ mode = "order"
    /\ ocall.op = "variants_order"
    /\ Len(package_variants("p").variants) = 3
    /\ compare_variants(package_variants("p"), 1, 3) = "Equal"
    /\ compare_variants(package_variants("p"), 1, 2) # "Equal"
    /\ ocall.ret[1][1] # 1

\* the five steps of the comparison in the order C33 gives them; score is the
\* dependency score of a against b
Lexicographic(a, b, score) ==
    IF a.track_features # b.track_features
    THEN (IF b.track_features THEN "Less" ELSE "Greater")
    ELSE IF a.version # b.version
    THEN (IF a.version > b.version THEN "Less" ELSE "Greater")
    ELSE IF a.build_number # b.build_number
    THEN (IF a.build_number > b.build_number THEN "Less" ELSE "Greater")
    ELSE IF score # 0
    THEN (IF score < 0 THEN "Less" ELSE "Greater")
    ELSE IF a.timestamp # b.timestamp
    THEN (IF a.timestamp > b.timestamp THEN "Less" ELSE "Greater")
    ELSE "Equal"

\* C33: compare_variants orders two variants of a set lexicographically: the
\* one without tracked features first; on a tie the higher version first; on
\* a tie the higher build number first; on a tie the dependency score
\* decides; on a remaining tie the newer timestamp first.
C33_Lexicographic ==
    (mode = "order" /\ ocall.op = "compare_variants") =>
        \A vs \in {package_variants("p")} :
            ocall.ret[1] =
                Lexicographic(vs.variants[ocall.args[1]].rec,
                              vs.variants[ocall.args[2]].rec,
                              TotalScore(
                                  UnwrapOrEmpty(dependencies(vs, ocall.args[1])),
                                  UnwrapOrEmpty(dependencies(vs, ocall.args[2])),
                                  1))

\* two variants that differ in the timestamp only were compared, the newer
\* one given first, and the answer was Less
C33_Witness ==
    /\ mode = "order"
    /\ ocall.op = "compare_variants"
    /\ ocall.ret = <<"Less">>
    /\ \E vs \in {package_variants("p")} :
        /\ vs.variants[ocall.args[1]].rec.timestamp >
               vs.variants[ocall.args[2]].rec.timestamp
        /\ [vs.variants[ocall.args[1]].rec EXCEPT !.timestamp = 0] =
               [vs.variants[ocall.args[2]].rec EXCEPT !.timestamp = 0]

\* the records of the spec's package that the spec matches
MatchingRecords(match_spec) ==
    {package_variants(match_spec.name).variants[i].rec :
        i \in {j \in 1..Len(package_variants(match_spec.name).variants) :
                 matches(match_spec,
                         package_variants(match_spec.name).variants[j].rec)}}

\* what C34 asks find_highest_version to return for the spec
ExpectedHighest(match_spec) ==
    IF match_spec.name = NoneV \/ MatchingRecords(match_spec) = {} THEN <<>>
    ELSE <<[version |-> CHOOSE v \in {r.version : r \in MatchingRecords(match_spec)} :
                            \A r \in MatchingRecords(match_spec) : r.version <= v,
            tracked |-> \A r \in MatchingRecords(match_spec) : r.track_features]>>

\* C34: find_highest_version(spec) returns (v, t) with v the highest version
\* among the records of the spec's package that match the spec and t true
\* exactly when every matching record carries tracked features; it returns
\* nothing when no record matches.
C34_HighestVersion ==
    (mode = "order" /\ ocall.op = "find_highest_version") =>
        ocall.ret = ExpectedHighest(ocall.args[1])

\* C35: compare_variants is a consistent total preorder on the variants of a
\* set: a variant compares Equal with itself, compare(a, b) is the reverse
\* of compare(b, a), and the relation is transitive.
C35_TotalPreorder ==
    (mode = "order" /\ ocall.op = "compare_variants") =>
        \A vs \in {package_variants("p")} :
            \A a \in {ocall.args[1]}, b \in {ocall.args[2]}, c \in 1..Len(vs.variants) :
                /\ a = b => ocall.ret = <<"Equal">>
                /\ ocall.ret = <<"Less">> <=> compare_variants(vs, b, a) = "Greater"
                /\ ocall.ret = <<"Equal">> <=> compare_variants(vs, b, a) = "Equal"
                /\ (ocall.ret # <<"Greater">>
                      /\ compare_variants(vs, b, c) # "Greater") =>
                       compare_variants(vs, a, c) # "Greater"

(***************************************************************************)
(* The Python compiler (install/compile.rs): compile() sends a request     *)
(* with the Sender of a fresh oneshot channel to the host task and awaits  *)
(* the Receiver; the host task starts the process at the first request,    *)
(* writes the path of every request to the process and answers the request *)
(* recorded for every line the process writes back.  While the host is     *)
(* suspended in a write it takes neither requests nor lines.  The          *)
(* PythonCompiler is kept for the whole run, so the queue is never closed. *)
(***************************************************************************)
CompCalls == {1, 2, 3}
CompSources == {"a.py", "b.py"}

\* PythonCompiler::new: the host task is spawned and waits for a request;
\* every call of compile has its source and has not begun
CompInit ==
    /\ mode = "compile"
    /\ AlgIdle
    /\ InsIdle
    /\ SolIdle
    /\ CacheIdle
    /\ LinkIdle
    /\ RewIdle
    /\ GateIdle
    /\ OrdIdle
    /\ cqueue = <<>>
    /\ chost = "idle"
    /\ cmap = <<>>
    /\ cstdin = <<>>
    /\ cstdout = <<>>
    /\ cwrite = <<>>
    /\ cproc = "none"
    /\ \E src \in [CompCalls -> CompSources] :
           ccalls = [c \in CompCalls |->
                        [source |-> src[c], pc |-> "idle", chan |-> "none", got |-> <<>>]]

CompFrame == UNCHANGED <<mode, algVars, insVars, solVars, cacheVars, linkVars, rewVars,
                         gateVars, ordVars>>

\* the Senders of the calls in dropped are dropped without a value: their
\* channels are closed
DropSenders(calls, dropped) ==
    [c \in DOMAIN calls |->
        IF c \in dropped /\ calls[c].chan = "open"
        THEN [calls[c] EXCEPT !.chan = "closed"]
        ELSE calls[c]]

\* the sequence without its element i
Without(seq, i) == SubSeq(seq, 1, i - 1) \o SubSeq(seq, i + 1, Len(seq))

\* PythonCompiler::compile up to the await: the request is sent, or the
\* send fails because the host task has ended and expect panics
Compile(c) ==
    /\ mode = "compile"
    /\ ccalls[c].pc = "idle"
    /\ IF chost = "panicked"
       THEN /\ ccalls' = [ccalls EXCEPT ![c].pc = "panicked"]
            /\ UNCHANGED cqueue
       ELSE /\ ccalls' = [ccalls EXCEPT ![c].pc = "waiting", ![c].chan = "open"]
            /\ cqueue' = Append(cqueue, [source |-> ccalls[c].source, sender |-> c])
    /\ UNCHANGED <<chost, cmap, cstdin, cstdout, cwrite, cproc>>
    /\ CompFrame

\* PythonCompiler::compile: the Receiver yields the value that was sent, or
\* an error when the Sender was dropped, and expect panics
Receive(c) ==
    /\ mode = "compile"
    /\ ccalls[c].pc = "waiting"
    /\ ccalls[c].chan \in {"value", "closed"}
    /\ ccalls' = [ccalls EXCEPT ![c].pc = IF ccalls[c].chan = "value" THEN "done"
                                          ELSE "panicked"]
    /\ UNCHANGED <<cqueue, chost, cmap, cstdin, cstdout, cwrite, cproc>>
    /\ CompFrame

\* filename_to_request.insert(path_string, request.sender), which drops the
\* Sender the map held for the path, and the call of write_all for the
\* line, whose future the host awaits
Register(request) ==
    /\ cmap' = Insert(cmap, request.source, request.sender)
    /\ ccalls' = IF request.source \in DOMAIN cmap
                 THEN DropSenders(ccalls, {cmap[request.source]})
                 ELSE ccalls
    /\ cwrite' = <<request.source>>

\* a panic of the host task: the task ends and drops the request it holds,
\* the map, the queue and the requests in the queue, and with them their
\* Senders
HostPanic(held) ==
    /\ chost' = "panicked"
    /\ cmap' = <<>>
    /\ cqueue' = <<>>
    /\ cwrite' = <<>>
    /\ ccalls' = DropSenders(ccalls,
                     held \cup {cmap[n] : n \in DOMAIN cmap}
                          \cup {cqueue[i].sender : i \in 1..Len(cqueue)})

\* compiler_host: the first request arrives, the process is spawned and the
\* request is recorded
HostFirst ==
    /\ mode = "compile"
    /\ chost = "idle"
    /\ cqueue # <<>>
    /\ chost' = "running"
    /\ cproc' = "running"
    /\ cqueue' = Tail(cqueue)
    /\ Register(Head(cqueue))
    /\ UNCHANGED <<cstdin, cstdout>>
    /\ CompFrame

\* compiler_host: the first request arrives and the temporary file cannot
\* be created or the process cannot be spawned: expect panics
HostSpawnErr ==
    /\ mode = "compile"
    /\ chost = "idle"
    /\ cqueue # <<>>
    /\ HostPanic({Head(cqueue).sender})
    /\ UNCHANGED <<cstdin, cstdout, cproc>>
    /\ CompFrame

\* compiler_host, select!: a request arrives
HostRequest ==
    /\ mode = "compile"
    /\ chost = "running"
    /\ cwrite = <<>>
    /\ cqueue # <<>>
    /\ cqueue' = Tail(cqueue)
    /\ Register(Head(cqueue))
    /\ UNCHANGED <<chost, cstdin, cstdout, cproc>>
    /\ CompFrame

\* compiler_host: write_all has written the whole line to the pipe of the
\* process
HostWrite ==
    /\ mode = "compile"
    /\ chost = "running"
    /\ cwrite # <<>>
    /\ cproc = "running"
    /\ cstdin' = Append(cstdin, cwrite[1])
    /\ cwrite' = <<>>
    /\ UNCHANGED <<cqueue, chost, cmap, cstdout, cproc, ccalls>>
    /\ CompFrame

\* compiler_host: write_all fails because the process has exited, and
\* expect panics
HostWriteErr ==
    /\ mode = "compile"
    /\ chost = "running"
    /\ cwrite # <<>>
    /\ cproc = "exited"
    /\ HostPanic({})
    /\ UNCHANGED <<cstdin, cstdout, cproc>>
    /\ CompFrame

\* compiler_host, select!: the process has written a line; the entry of the
\* line is removed and Ok is sent to its Sender. Without an entry expect
\* panics.
HostLine ==
    /\ mode = "compile"
    /\ chost = "running"
    /\ cwrite = <<>>
    /\ cstdout # <<>>
    /\ cstdout' = Tail(cstdout)
    /\ \E line \in {Head(cstdout)} :
          IF line \in DOMAIN cmap
          THEN /\ cmap' = [n \in DOMAIN cmap \ {line} |-> cmap[n]]
               /\ ccalls' = [ccalls EXCEPT ![cmap[line]].chan = "value",
                                           ![cmap[line]].got = Append(@, line)]
               /\ UNCHANGED <<chost, cqueue, cwrite>>
          ELSE HostPanic({})
    /\ UNCHANGED <<cstdin, cproc>>
    /\ CompFrame

\* the process: it has compiled one of the paths it was given and writes
\* that path as a line
ProcessAnswer ==
    /\ mode = "compile"
    /\ cproc = "running"
    /\ \E i \in 1..Len(cstdin) :
          /\ cstdout' = Append(cstdout, cstdin[i])
          /\ cstdin' = Without(cstdin, i)
    /\ UNCHANGED <<cqueue, chost, cmap, cwrite, cproc, ccalls>>
    /\ CompFrame

\* the process exits; the lines it has not read are lost, the lines it has
\* written can still be read
ProcessExit ==
    /\ mode = "compile"
    /\ cproc = "running"
    /\ cproc' = "exited"
    /\ cstdin' = <<>>
    /\ UNCHANGED <<cqueue, chost, cmap, cstdout, cwrite, ccalls>>
    /\ CompFrame

CompNext ==
    \/ \E c \in CompCalls : Compile(c)
    \/ \E c \in CompCalls : Receive(c)
    \/ HostFirst
    \/ HostSpawnErr
    \/ HostRequest
    \/ HostWrite
    \/ HostWriteErr
    \/ HostLine
    \/ ProcessAnswer
    \/ ProcessExit

SpecCompile == CompInit /\ [][CompNext]_vars

\* The runtime polls the host task and every caller that can go on, and the
\* process, while it runs, answers every line it was given.
SpecCompileFair ==
    /\ SpecCompile
    /\ WF_vars(HostFirst)
    /\ WF_vars(HostRequest)
    /\ WF_vars(HostWrite)
    /\ WF_vars(HostWriteErr)
    /\ WF_vars(HostLine)
    /\ WF_vars(ProcessAnswer)
    /\ \A c \in CompCalls : WF_vars(Receive(c))

\* the temporary file was created, the process was spawned and it has not
\* exited
ProcessServes == cproc # "exited" /\ ~(chost = "panicked" /\ cproc = "none")

\* C39: the host starts the process only when the first request has
\* arrived, and every call of compile(source) receives in the end exactly
\* one response, the one for its own source, however the requests and the
\* lines of the process interleave and also when two requests for one source
\* are outstanding (as long as the process could be started and runs).
C39_EveryCallAnswered ==
    /\ [](cproc # "none" => \E c \in CompCalls : ccalls[c].pc # "idle")
    /\ [](\A c \in CompCalls :
             /\ Len(ccalls[c].got) <= 1
             /\ ccalls[c].got # <<>> => ccalls[c].got = <<ccalls[c].source>>)
    /\ \A c \in CompCalls :
           []ProcessServes =>
               ((ccalls[c].pc = "waiting")
                   ~> (ccalls[c].pc = "done" /\ ccalls[c].got = <<ccalls[c].source>>))

(***************************************************************************)
(* The whole program: a behaviour exercises one of its parts.              *)
(***************************************************************************)
Init == AlgInit \/ InsInit \/ SolInit \/ CacheInit \/ LinkInit \/ RewInit \/ GateInit \/ OrdInit \/ CompInit

Next == AlgNext \/ InsNext \/ SolNext \/ CacheNext \/ LinkNext \/ RewNext \/ GateNext \/ OrdNext \/ CompNext

Spec == Init /\ [][Next]_vars

====
